---- MODULE Spec2Model ----
(***************************************************************************)
(* Verification model of the core of the AdsTxt analysis service: package  *)
(* ratelimit (TokenBucket, TwoTierRateLimiter) and package domainAnalysis  *)
(* (AnalyzeDomain, AnalyzeDomains, buildAnalysis, aggregateResults).       *)
(*                                                                         *)
(* Time.  The code reads the clock only to form now.Sub(tb.lastRefill), so *)
(* a bucket carries `elapsed` = now - lastRefill, in ticks, instead of the *)
(* absolute lastRefill.  Setting lastRefill = now is elapsed = 0, and the  *)
(* passing of one tick adds 1 to every bucket's elapsed.  One tick is      *)
(* 1/TicksPerSec seconds.  A bucket's elapsed saturates where a refill     *)
(* already fills the bucket to its capacity (Saturation), so the           *)
(* saturation changes no result of Allow and the clock is unbounded.       *)
(*                                                                         *)
(* Scope.  Capacities and rates are counts (>= 0).  The sweep              *)
(* cleanupIPBuckets deletes buckets whose lastRefill is more than 30       *)
(* minutes old.  SpecSweep and SpecSweepLive run it beside the calls of    *)
(* Allow: there the clock moves in steps of the ticker period (10          *)
(* minutes) while the sweep goroutine waits for the ticker, and a sweep    *)
(* is the steps wake, read one entry, decide on it.  The other             *)
(* specifications cover spans shorter than the cutoff and leave the sweep  *)
(* idle.                                                                   *)
(*                                                                         *)
(* Calls.  SpecCalls counts the pipelines of several AnalyzeDomains calls  *)
(* and of single-domain requests that run on one Service at a time.        *)
(*                                                                         *)
(* Batch.  One AnalyzeDomains call: the caller, one worker per domain, the *)
(* aggregator and the closer are goroutines that step one at a time.  The  *)
(* loop that starts the workers is one step of the caller, the steps of    *)
(* AnalyzeDomain after a cache miss are one step of the worker, and the    *)
(* two deferred calls on the way out (<-sem, wg.Done()) are one step: each *)
(* merges steps that no other goroutine can tell apart.  A context that is *)
(* done is the caller's cancelled ctx; the 30 s deadline of a task acts on *)
(* the pipeline in the same way and is not a separate event.  Fetcher,     *)
(* parser and cache are collaborators: a world fixes what they answer for  *)
(* each domain.  make(chan, maxConcurrent) panics for a negative           *)
(* maxConcurrent; the model draws maxConcurrent from 0 upwards.            *)
(***************************************************************************)
EXTENDS Integers, Sequences, FiniteSets, TLC

\* ------------------------------------------------------------------ bounds
MaxCap == 1         \* capacities are drawn from 0..MaxCap (0..MaxCap+1 without a clock)
MaxRate == 1        \* refill rates (tokens per second) from 0..MaxRate
MaxCalls == 2       \* calls a client goroutine issues in a burst
TicksPerSec == 2    \* clock resolution of the model: ticks per second

Procs == {"p1", "p2"}          \* client goroutines
Idents == {"ipA", "ipB"}       \* client identifiers (clientIP)
WaitIdents == {"ipA"}          \* the identifiers Wait is called with

Min(a, b) == IF a < b THEN a ELSE b
Max(a, b) == IF a > b THEN a ELSE b
NoIP == "-"

VARIABLES
    cfg,            \* arguments of NewTwoTierRateLimiter
    globalBucket,   \* trl.globalBucket
    buckets,        \* the per-IP TokenBucket objects stored so far (by reference)
    ipBuckets,      \* trl.ipBuckets: clientIP -> reference into buckets, 0 = no entry
    pc,             \* each goroutine's position in Allow / Wait
    op,             \* the call a goroutine is in: "Allow" or "Wait"
    clientIP,       \* its argument
    ipBucket,       \* Allow's local ipBucket (a reference), 0 = none yet
    newBucket,      \* getOrCreateIPBucket's local newBucket
    ret,            \* the call's result
    tickPending,    \* Wait's ticker.C holds an undelivered tick
    ctxDone,        \* Wait's ctx is done
    gHeld,          \* history: global tokens the call took and has not given back
    ipHeld,         \* history: per-IP tokens the call took
    gFull,          \* history: the call's returnGlobalToken found the bucket full
    denied,         \* history: the Wait call has had a poll denied
    burst,          \* history of the calls made before the clock first advances
    tb,             \* a stand-alone TokenBucket
    tbLog           \* history of the stand-alone bucket

limVars == <<cfg, globalBucket, buckets, ipBuckets>>
procVars == <<pc, op, clientIP, ipBucket, newBucket, ret, tickPending, ctxDone>>
callVars == <<gHeld, ipHeld, gFull, denied>>
tbVars == <<tb, tbLog>>

\* one call of Service.AnalyzeDomains(ctx, domains)
VARIABLES
    domains,          \* the argument domains
    maxConcurrent,    \* s.maxConcurrent
    env,              \* what the collaborators answer for each domain, and the cache backend
    dcache,           \* the domain cache: domain -> stored analysis, or NoAnalysis
    sem,              \* number of elements in the channel sem
    wg,               \* the WaitGroup's counter
    resultsChan,      \* the elements buffered in resultsChan
    chanClosed,       \* resultsChan has been closed
    wpc,              \* each worker goroutine's position
    wres,             \* each worker's locals analysis / err, then result
    stages,           \* history: the collaborator calls each worker's AnalyzeDomain made
    lateInvoke,       \* history: the worker got its slot after ctx was cancelled
    results,          \* aggregateResults' local results
    summary,          \* aggregateResults' local summary
    advertiserCounts, \* aggregateResults' local advertiserCounts
    aggpc,            \* the aggregator goroutine's position
    responseChan,     \* the element buffered in responseChan, or NoResponse
    closerpc,         \* the position of the goroutine that runs wg.Wait(); close(resultsChan)
    mainpc,           \* the caller's position in AnalyzeDomains
    response,         \* what AnalyzeDomains returned
    bctxDone          \* the caller's ctx is done

batchVars ==
    <<domains, maxConcurrent, env, dcache, sem, wg, resultsChan, chanClosed, wpc, wres,
      stages, lateInvoke, results, summary, advertiserCounts, aggpc, responseChan,
      closerpc, mainpc, response, bctxDone>>

\* one goroutine of the HTTP server per request through rateLimitingMiddleware
VARIABLE
    mw                \* per goroutine: the request it serves, what became of it, and
                      \* (history) the number of requests it has received

httpVars == <<mw>>

\* AnalyzeDomains calls and AnalyzeDomain requests that run at the same time on
\* one Service
VARIABLE
    gate              \* s.maxConcurrent, each call's sem and tasks, the single requests

gateVars == <<gate>>

\* the goroutine of cleanupIPBuckets
VARIABLES
    swpc,             \* its position
    swFire,           \* its ticker's channel holds a tick
    swTodo,           \* the keys ipBuckets.Range has still to visit
    swKey,            \* the key of the entry the callback is visiting
    swOld,            \* lastActivity.Before(cutoff), as the callback found it
    kept              \* history: per identifier, the bucket it would have had its
                      \* entry not been deleted (none while it never was)

sweepVars == <<swpc, swFire, swTodo, swKey, swOld, kept>>

vars == <<limVars, procVars, callVars, burst, tbVars, batchVars, httpVars, gateVars, sweepVars>>

Domains == {"d1", "d2"}     \* the publisher domains of a batch

NoAnalysis == [none |-> TRUE]
NoResponse == [none |-> TRUE]
NoSummary == [Total |-> 0, Succeeded |-> 0, Failed |-> 0]

\* a goroutine that serves no request: nothing written to the ResponseWriter,
\* next.ServeHTTP not called
NoRequest == [stage |-> "none", ip |-> NoIP, status |-> 0, nextCalls |-> 0, requests |-> 0]

\* no request in the middleware
InitHttpIdle == mw = [p \in Procs |-> NoRequest]

\* a Service nothing is called on
NoGate == [max |-> 0, calls |-> [p \in Procs |-> [on |-> FALSE, sem |-> 0, waiting |-> 0,
                                                  running |-> 0]],
           single |-> 0]

InitGateIdle == gate = NoGate

\* an identifier whose entry has not been deleted
Unkept == [none |-> TRUE]

\* the sweep goroutine before its ticker's first tick, nothing deleted so far
InitSweepIdle ==
    /\ swpc = "idle"
    /\ swFire = FALSE
    /\ swTodo = {}
    /\ swKey = NoIP
    /\ swOld = FALSE
    /\ kept = [id \in Idents |-> Unkept]

\* no AnalyzeDomains call
InitBatchIdle ==
    /\ domains = << >>
    /\ maxConcurrent = 0
    /\ env = [backend |-> "memory", setOk |-> TRUE]
    /\ dcache = [d \in Domains |-> NoAnalysis]
    /\ sem = 0
    /\ wg = 0
    /\ resultsChan = << >>
    /\ chanClosed = FALSE
    /\ wpc = << >>
    /\ wres = << >>
    /\ stages = << >>
    /\ lateInvoke = << >>
    /\ results = << >>
    /\ summary = NoSummary
    /\ advertiserCounts = << >>
    /\ aggpc = "off"
    /\ responseChan = NoResponse
    /\ closerpc = "off"
    /\ mainpc = "off"
    /\ response = NoResponse
    /\ bctxDone = FALSE

\* ------------------------------------------------------------ TokenBucket

NewTokenBucket(capacity, refillRate) ==
    [capacity |-> capacity, tokens |-> capacity,
     refillRate |-> refillRate, elapsed |-> 0]

\* a variant that rounds the product up to the next whole token
tokensToAddCeil(b) == (b.elapsed * b.refillRate + TicksPerSec - 1) \div TicksPerSec

\* int64(elapsed * float64(tb.refillRate)), elapsed in seconds
tokensToAdd(b) == (b.elapsed * b.refillRate) \div TicksPerSec

\* a variant that sets lastRefill = now on every call, tokens added or not
refillAlwaysStamps(b) ==
    [b EXCEPT !.tokens = Min(b.capacity, b.tokens + tokensToAdd(b)), !.elapsed = 0]

refill(b) ==
    IF tokensToAdd(b) > 0
    THEN [b EXCEPT !.tokens = Min(b.capacity, b.tokens + tokensToAdd(b)),
                   !.elapsed = 0]
    ELSE b

\* a variant without the test tb.tokens > 0
TokenBucketAllowUnchecked(b) ==
    LET r == IF tokensToAdd(b) > 0
             THEN [b EXCEPT !.tokens = Min(b.capacity, b.tokens + tokensToAdd(b)),
                            !.elapsed = 0]
             ELSE b
    IN [ok |-> TRUE, b |-> [r EXCEPT !.tokens = @ - 1]]

\* a variant that admits without tb.tokens--
TokenBucketAllowNoTake(b) ==
    LET r == IF tokensToAdd(b) > 0
             THEN [b EXCEPT !.tokens = Min(b.capacity, b.tokens + tokensToAdd(b)),
                            !.elapsed = 0]
             ELSE b
    IN [ok |-> r.tokens > 0, b |-> r]

\* TokenBucket.Allow under its mutex: the result and the bucket afterwards
TokenBucketAllow(b) ==
    LET r == refill(b) IN
    IF r.tokens > 0
    THEN [ok |-> TRUE, b |-> [r EXCEPT !.tokens = @ - 1]]
    ELSE [ok |-> FALSE, b |-> r]

\* the least elapsed at which refill adds what the bucket lacks, and at least one
\* token: from there on more elapsed time changes neither the tokens nor the
\* elapsed a refill leaves, and the bucket only gains tokens until that refill
Saturation(b) ==
    IF b.refillRate = 0 THEN 0
    ELSE (Max(b.capacity - b.tokens, 1) * TicksPerSec + b.refillRate - 1) \div b.refillRate

\* the clock advances by one tick
Aged(b) == [b EXCEPT !.elapsed = Min(@ + 1, Saturation(b))]

\* ----------------------------------------------------- TwoTierRateLimiter

NoBucket == NewTokenBucket(0, 0)

\* variants: without the capacity test, without the increment, with two increments
returnGlobalTokenUncapped(g) == [g EXCEPT !.tokens = @ + 1]
returnGlobalTokenNoop(g) == g
returnGlobalTokenTwice(g) == [g EXCEPT !.tokens = @ + 2]

returnGlobalToken(g) ==
    IF g.tokens < g.capacity THEN [g EXCEPT !.tokens = @ + 1] ELSE g

\* a variant that is sync.Map.Store: the new value replaces a present one
StoreOverwrite(m, h, key, nb) ==
    [m |-> [m EXCEPT ![key] = Len(h) + 1], h |-> Append(h, nb), actual |-> Len(h) + 1]

\* sync.Map.LoadOrStore(key, nb): the map, the stored objects, the actual value
LoadOrStore(m, h, key, nb) ==
    IF m[key] # 0
    THEN [m |-> m, h |-> h, actual |-> m[key]]
    ELSE [m |-> [m EXCEPT ![key] = Len(h) + 1], h |-> Append(h, nb),
          actual |-> Len(h) + 1]

Busy(p) == pc[p] \notin {"idle", "done"}

\* the history of the calls made while the clock has not advanced since construction
\*   issued[p]   calls goroutine p has started
\*   overlapped  some call started while another was in progress
\*   log         the results Allow returned, in order: [id, ok]
\*   seen        the identifiers getOrCreateIPBucket has returned a bucket for
BurstStart ==
    [on |-> TRUE, issued |-> [p \in Procs |-> 0], overlapped |-> FALSE,
     log |-> << >>, seen |-> {}]

BurstOff == [BurstStart EXCEPT !.on = FALSE]

Counting == burst.on

Seen(id) == IF Counting THEN [burst EXCEPT !.seen = @ \cup {id}] ELSE burst

Admitted(id) ==
    Cardinality({i \in 1..Len(burst.log) : burst.log[i].id = id /\ burst.log[i].ok})
TotalAdmitted == Cardinality({i \in 1..Len(burst.log) : burst.log[i].ok})

\* the tokens identifier id has left: its bucket's, or those of the bucket its
\* first call will create
IdTokens(id) ==
    IF ipBuckets[id] = 0 THEN cfg.pcap ELSE buckets[ipBuckets[id]].tokens

\* a goroutine enters Allow(id) or Wait(ctx, id); a burst is MaxCalls calls each
Enter(p, id, o) ==
    /\ pc[p] = "idle"
    /\ op' = [op EXCEPT ![p] = o]
    /\ clientIP' = [clientIP EXCEPT ![p] = id]
    /\ IF Counting
       THEN /\ burst.issued[p] < MaxCalls
            /\ burst' = [burst EXCEPT
                           !.issued[p] = @ + 1,
                           !.overlapped = @ \/ \E q \in Procs \ {p} : Busy(q)]
       ELSE burst' = burst
    /\ UNCHANGED <<limVars, ipBucket, newBucket, ret, callVars, tbVars, batchVars, httpVars, gateVars, sweepVars>>

StartAllow(p, id) ==
    /\ Enter(p, id, "Allow")
    /\ pc' = [pc EXCEPT ![p] = "global"]
    /\ UNCHANGED <<tickPending, ctxDone>>

\* Wait: ticker := time.NewTicker(100ms); the first poll waits for its first tick
StartWait(p, id) ==
    /\ Enter(p, id, "Wait")
    /\ pc' = [pc EXCEPT ![p] = "select"]
    /\ UNCHANGED <<tickPending, ctxDone>>

\* TwoTierRateLimiter.Allow returns ok to goroutine p: to the caller of Allow, or
\* to Wait's loop, which returns nil on true and selects again on false
AllowReturns(p, ok) ==
    /\ IF op[p] = "Allow"
       THEN /\ pc' = [pc EXCEPT ![p] = "done"]
            /\ ret' = [ret EXCEPT ![p] = IF ok THEN "true" ELSE "false"]
       ELSE /\ pc' = [pc EXCEPT ![p] = IF ok THEN "done" ELSE "select"]
            /\ ret' = [ret EXCEPT ![p] = IF ok THEN "nil" ELSE "none"]
    /\ denied' = [denied EXCEPT ![p] = @ \/ (op[p] = "Wait" /\ ~ok)]
    /\ burst' = IF Counting
                THEN [burst EXCEPT !.log = Append(@, [id |-> clientIP[p], ok |-> ok])]
                ELSE burst

\* a variant of Allow that gets or creates the identifier's bucket before it
\* asks the global bucket
GlobalDeniedCreatesEntry(p) ==
    /\ AllowReturns(p, FALSE)
    /\ LET s == LoadOrStore(ipBuckets, buckets, clientIP[p],
                            NewTokenBucket(cfg.pcap, cfg.prate)) IN
         /\ ipBuckets' = s.m
         /\ buckets' = s.h
    /\ UNCHANGED <<ipBucket, newBucket, gHeld, ipHeld, gFull>>

\* line 371: if !trl.globalBucket.Allow() { return false }
GlobalDenied(p) ==
    /\ AllowReturns(p, FALSE)
    /\ UNCHANGED <<buckets, ipBuckets, ipBucket, newBucket, gHeld, ipHeld, gFull>>

GlobalAdmitted(p) ==
    /\ pc' = [pc EXCEPT ![p] = "load"]
    /\ gHeld' = [gHeld EXCEPT ![p] = refill(globalBucket).tokens - globalBucket'.tokens]
    /\ UNCHANGED <<buckets, ipBuckets, ipBucket, newBucket, ret, denied, burst,
                   ipHeld, gFull>>

\* line 371: trl.globalBucket.Allow()
GlobalStep(p) ==
    /\ LET a == TokenBucketAllow(globalBucket) IN
         /\ globalBucket' = a.b
         /\ IF a.ok THEN GlobalAdmitted(p) ELSE GlobalDenied(p)
    /\ UNCHANGED <<cfg, op, clientIP, ctxDone, tbVars, batchVars, httpVars, gateVars, sweepVars>>

GlobalAllow(p) ==
    /\ pc[p] = "global"
    /\ GlobalStep(p)
    /\ UNCHANGED tickPending

\* getOrCreateIPBucket, lines 406-411: Load, and on a miss NewTokenBucket
Load(p) ==
    /\ pc[p] = "load"
    /\ IF ipBuckets[clientIP[p]] # 0
       THEN /\ ipBucket' = [ipBucket EXCEPT ![p] = ipBuckets[clientIP[p]]]
            /\ pc' = [pc EXCEPT ![p] = "ip"]
            /\ burst' = Seen(clientIP[p])
            /\ UNCHANGED newBucket
       ELSE /\ newBucket' = [newBucket EXCEPT ![p] = NewTokenBucket(cfg.pcap, cfg.prate)]
            /\ pc' = [pc EXCEPT ![p] = "store"]
            /\ UNCHANGED <<ipBucket, burst>>
    /\ UNCHANGED <<limVars, op, clientIP, ret, tickPending, ctxDone, callVars, tbVars, batchVars, httpVars, gateVars, sweepVars>>

\* getOrCreateIPBucket, lines 412-414
Store(p) ==
    /\ pc[p] = "store"
    /\ LET s == LoadOrStore(ipBuckets, buckets, clientIP[p], newBucket[p]) IN
         /\ ipBuckets' = s.m
         /\ buckets' = s.h
         /\ ipBucket' = [ipBucket EXCEPT ![p] = s.actual]
    /\ newBucket' = [newBucket EXCEPT ![p] = NoBucket]
    /\ pc' = [pc EXCEPT ![p] = "ip"]
    /\ burst' = Seen(clientIP[p])
    /\ UNCHANGED <<cfg, globalBucket, op, clientIP, ret, tickPending, ctxDone,
                   callVars, tbVars, batchVars, httpVars, gateVars, sweepVars>>

\* lines 377-384: ipBucket.Allow(); the bucket the identifier would have without
\* the sweep (kept) gets the same call
IPAllow(p) ==
    /\ pc[p] = "ip"
    /\ LET a == TokenBucketAllow(buckets[ipBucket[p]]) IN
         /\ buckets' = [buckets EXCEPT ![ipBucket[p]] = a.b]
         /\ kept' = [kept EXCEPT ![clientIP[p]] =
                        IF @ = Unkept THEN @ ELSE TokenBucketAllow(@).b]
         /\ IF a.ok
            THEN /\ AllowReturns(p, TRUE)
                 /\ ipHeld' = [ipHeld EXCEPT ![p] =
                                 refill(buckets[ipBucket[p]]).tokens - a.b.tokens]
            ELSE /\ pc' = [pc EXCEPT ![p] = "return"]
                 /\ UNCHANGED <<ret, denied, burst, ipHeld>>
    /\ UNCHANGED <<cfg, globalBucket, ipBuckets, op, clientIP, ipBucket, newBucket,
                   tickPending, ctxDone, gHeld, gFull, tbVars, batchVars, httpVars, gateVars,
                   swpc, swFire, swTodo, swKey, swOld>>

\* lines 380-381: trl.returnGlobalToken(); return false
ReturnToken(p) ==
    /\ pc[p] = "return"
    /\ globalBucket' = returnGlobalToken(globalBucket)
    /\ gHeld' = [gHeld EXCEPT ![p] = @ - (globalBucket'.tokens - globalBucket.tokens)]
    /\ gFull' = [gFull EXCEPT ![p] = @ \/ globalBucket.tokens >= globalBucket.capacity]
    /\ AllowReturns(p, FALSE)
    /\ UNCHANGED <<cfg, buckets, ipBuckets, op, clientIP, ipBucket, newBucket,
                   tickPending, ctxDone, ipHeld, tbVars, batchVars, httpVars, gateVars, sweepVars>>

\* Wait's select, case <-ticker.C: trl.Allow(clientIP), up to its globalBucket.Allow()
WaitPoll(p) ==
    /\ pc[p] = "select"
    /\ tickPending[p]
    /\ tickPending' = [tickPending EXCEPT ![p] = FALSE]
    /\ GlobalStep(p)

\* a variant that returns nil when the context is done
WaitCtxDoneNil(p) ==
    /\ pc[p] = "select"
    /\ ctxDone[p]
    /\ pc' = [pc EXCEPT ![p] = "done"]
    /\ ret' = [ret EXCEPT ![p] = "nil"]
    /\ UNCHANGED <<limVars, op, clientIP, ipBucket, newBucket, tickPending, ctxDone,
                   callVars, burst, tbVars, batchVars, httpVars, gateVars, sweepVars>>

\* Wait's select, case <-ctx.Done(): return ctx.Err()
WaitCtxDone(p) ==
    /\ pc[p] = "select"
    /\ ctxDone[p]
    /\ pc' = [pc EXCEPT ![p] = "done"]
    /\ ret' = [ret EXCEPT ![p] = "ctxErr"]
    /\ UNCHANGED <<limVars, op, clientIP, ipBucket, newBucket, tickPending, ctxDone,
                   callVars, burst, tbVars, batchVars, httpVars, gateVars, sweepVars>>

\* the caller's context is cancelled or its deadline passes
CtxCancel(p) ==
    /\ Busy(p)
    /\ op[p] = "Wait"
    /\ ~ctxDone[p]
    /\ ctxDone' = [ctxDone EXCEPT ![p] = TRUE]
    /\ UNCHANGED <<limVars, pc, op, clientIP, ipBucket, newBucket, ret, tickPending,
                   callVars, burst, tbVars, batchVars, httpVars, gateVars, sweepVars>>

\* the caller takes the result; the goroutine is free for its next call
Return(p) ==
    /\ pc[p] = "done"
    /\ pc' = [pc EXCEPT ![p] = "idle"]
    /\ op' = [op EXCEPT ![p] = "Allow"]
    /\ clientIP' = [clientIP EXCEPT ![p] = NoIP]
    /\ ipBucket' = [ipBucket EXCEPT ![p] = 0]
    /\ ret' = [ret EXCEPT ![p] = "none"]
    /\ tickPending' = [tickPending EXCEPT ![p] = FALSE]
    /\ ctxDone' = [ctxDone EXCEPT ![p] = FALSE]
    /\ gHeld' = [gHeld EXCEPT ![p] = 0]
    /\ ipHeld' = [ipHeld EXCEPT ![p] = 0]
    /\ gFull' = [gFull EXCEPT ![p] = FALSE]
    /\ denied' = [denied EXCEPT ![p] = FALSE]
    /\ UNCHANGED <<limVars, newBucket, burst, tbVars, batchVars, httpVars, gateVars, sweepVars>>

\* the clock advances by one tick; every running ticker delivers (its channel
\* holds one tick)
Tick ==
    /\ globalBucket' = Aged(globalBucket)
    /\ buckets' = [i \in DOMAIN buckets |-> Aged(buckets[i])]
    /\ newBucket' = [p \in Procs |->
                        IF pc[p] = "store" THEN Aged(newBucket[p]) ELSE newBucket[p]]
    /\ tickPending' = [p \in Procs |->
                        IF Busy(p) /\ op[p] = "Wait" THEN TRUE ELSE tickPending[p]]
    /\ burst' = BurstOff
    /\ UNCHANGED <<cfg, ipBuckets, pc, op, clientIP, ipBucket, ret, ctxDone,
                   callVars, tbVars, batchVars, httpVars, gateVars, sweepVars>>

\* ------------------------------------------------- stand-alone TokenBucket

TbHorizon == 2 * TicksPerSec
MaxTbCalls == MaxCap + 4

\* tb.Allow(); tbLog records the time since NewTokenBucket, the result, and the
\* tokens and the time since lastRefill the call leaves
TbAllow ==
    /\ Len(tbLog.calls) < MaxTbCalls
    /\ LET a == TokenBucketAllow(tb) IN
         /\ tb' = a.b
         /\ tbLog' = [tbLog EXCEPT !.calls =
                         Append(@, [at |-> tbLog.since, ok |-> a.ok,
                                    left |-> a.b.tokens, age |-> a.b.elapsed])]
    /\ UNCHANGED <<limVars, procVars, callVars, burst, batchVars, httpVars, gateVars, sweepVars>>

TbTick ==
    /\ tb' = Aged(tb)
    /\ tbLog' = [tbLog EXCEPT !.since = Min(@ + 1, TbHorizon)]
    /\ UNCHANGED <<limVars, procVars, callVars, burst, batchVars, httpVars, gateVars, sweepVars>>

\* ------------------------------------------------------------------ specs

Configs ==
    [gcap : 0..MaxCap, grate : 0..MaxRate, pcap : 0..MaxCap, prate : 0..MaxRate]

BurstConfigs ==
    [gcap : 0..(MaxCap + 1), grate : {MaxRate}, pcap : 0..(MaxCap + 1), prate : {MaxRate}]

LiveConfigs ==
    [gcap : 0..MaxCap, grate : 1..MaxRate, pcap : 0..MaxCap, prate : 1..MaxRate]

\* the state NewTwoTierRateLimiter(c.gcap, c.grate, c.pcap, c.prate) returns
InitLimiter(c) ==
    /\ cfg = c
    /\ globalBucket = NewTokenBucket(c.gcap, c.grate)
    /\ buckets = << >>
    /\ ipBuckets = [i \in Idents |-> 0]
    /\ pc = [p \in Procs |-> "idle"]
    /\ op = [p \in Procs |-> "Allow"]
    /\ clientIP = [p \in Procs |-> NoIP]
    /\ ipBucket = [p \in Procs |-> 0]
    /\ newBucket = [p \in Procs |-> NoBucket]
    /\ ret = [p \in Procs |-> "none"]
    /\ tickPending = [p \in Procs |-> FALSE]
    /\ ctxDone = [p \in Procs |-> FALSE]
    /\ gHeld = [p \in Procs |-> 0]
    /\ ipHeld = [p \in Procs |-> 0]
    /\ gFull = [p \in Procs |-> FALSE]
    /\ denied = [p \in Procs |-> FALSE]

InitTb(capacity, refillRate) ==
    /\ tb = NewTokenBucket(capacity, refillRate)
    /\ tbLog = [since |-> 0, calls |-> << >>]

\* Spec: goroutines calling Allow, with the clock
Init ==
    /\ \E c \in Configs : InitLimiter(c)
    /\ burst = BurstStart
    /\ InitTb(0, 0)
    /\ InitBatchIdle
    /\ InitHttpIdle
    /\ InitGateIdle
    /\ InitSweepIdle

Next ==
    \/ \E p \in Procs, id \in Idents : StartAllow(p, id)
    \/ \E p \in Procs : GlobalAllow(p)
    \/ \E p \in Procs : Load(p)
    \/ \E p \in Procs : Store(p)
    \/ \E p \in Procs : IPAllow(p)
    \/ \E p \in Procs : ReturnToken(p)
    \/ \E p \in Procs : Return(p)
    \/ Tick

Spec == Init /\ [][Next]_vars

\* SpecBurst: bursts of Allow calls during which the clock does not advance
InitBurst ==
    /\ \E c \in BurstConfigs : InitLimiter(c)
    /\ burst = BurstStart
    /\ InitTb(0, 0)
    /\ InitBatchIdle
    /\ InitHttpIdle
    /\ InitGateIdle
    /\ InitSweepIdle

NextBurst ==
    \/ \E p \in Procs, id \in Idents : StartAllow(p, id)
    \/ \E p \in Procs : GlobalAllow(p)
    \/ \E p \in Procs : Load(p)
    \/ \E p \in Procs : Store(p)
    \/ \E p \in Procs : IPAllow(p)
    \/ \E p \in Procs : ReturnToken(p)
    \/ \E p \in Procs : Return(p)

SpecBurst == InitBurst /\ [][NextBurst]_vars

\* SpecWait: goroutines calling Wait, with the clock and context cancellation
InitWait ==
    /\ \E c \in Configs : InitLimiter(c)
    /\ burst = BurstOff
    /\ InitTb(0, 0)
    /\ InitBatchIdle
    /\ InitHttpIdle
    /\ InitGateIdle
    /\ InitSweepIdle

NextWait ==
    \/ \E p \in Procs, id \in WaitIdents : StartWait(p, id)
    \/ \E p \in Procs : WaitPoll(p)
    \/ \E p \in Procs : WaitCtxDone(p)
    \/ \E p \in Procs : CtxCancel(p)
    \/ \E p \in Procs : Load(p)
    \/ \E p \in Procs : Store(p)
    \/ \E p \in Procs : IPAllow(p)
    \/ \E p \in Procs : ReturnToken(p)
    \/ \E p \in Procs : Return(p)
    \/ Tick

SpecWait == InitWait /\ [][NextWait]_vars

\* SpecBucket: one TokenBucket, Allow calls and the clock
InitBucket ==
    /\ InitLimiter([gcap |-> 0, grate |-> 0, pcap |-> 0, prate |-> 0])
    /\ burst = BurstOff
    /\ \E c \in 0..(MaxCap + 1), r \in 0..(MaxRate + 1) : InitTb(c, r)
    /\ InitBatchIdle
    /\ InitHttpIdle
    /\ InitGateIdle
    /\ InitSweepIdle

NextBucket ==
    \/ TbAllow
    \/ TbTick

SpecBucket == InitBucket /\ [][NextBucket]_vars

\* SpecLive: each goroutine calls Wait once, with a context that is never done;
\* the scheduler runs every goroutine that can take a step (weak fairness of a
\* goroutine's steps) and time passes (weak fairness of Tick)
InitLive ==
    /\ \E c \in LiveConfigs : InitLimiter(c)
    /\ burst = BurstOff
    /\ InitTb(0, 0)
    /\ InitBatchIdle
    /\ InitHttpIdle
    /\ InitGateIdle
    /\ InitSweepIdle

NextLive ==
    \/ \E p \in Procs, id \in WaitIdents : StartWait(p, id)
    \/ \E p \in Procs : WaitPoll(p)
    \/ \E p \in Procs : Load(p)
    \/ \E p \in Procs : Store(p)
    \/ \E p \in Procs : IPAllow(p)
    \/ \E p \in Procs : ReturnToken(p)
    \/ Tick

WaitStep(p) == WaitPoll(p) \/ Load(p) \/ Store(p) \/ IPAllow(p) \/ ReturnToken(p)

SpecLive ==
    /\ InitLive
    /\ [][NextLive]_vars
    /\ WF_vars(Tick)
    /\ \A p \in Procs : WF_vars(WaitStep(p))

\* ------------------------------------------------ rateLimitingMiddleware

MwFrame ==
    UNCHANGED <<limVars, procVars, callVars, burst, tbVars, batchVars, gateVars, sweepVars>>

\* a request reaches the middleware on goroutine p; clientIP := logEvent.ClientIP
MwReceive(p, id) ==
    /\ mw[p].stage \in {"none", "responded"}
    /\ pc[p] = "idle"
    /\ burst.issued[p] < MaxCalls
    /\ mw' = [mw EXCEPT ![p] = [stage |-> "received", ip |-> id, status |-> 0,
                                nextCalls |-> 0, requests |-> @.requests + 1]]
    /\ MwFrame

\* rateLimiter.Allow(clientIP) is called
MwAllow(p) ==
    /\ mw[p].stage = "received"
    /\ StartAllow(p, mw[p].ip)

\* a variant that hands every request on
MwDecideAlwaysNext(p) ==
    /\ mw[p].stage = "received"
    /\ pc[p] = "done"
    /\ mw' = [mw EXCEPT ![p].stage = "responded",
                        ![p].status = IF ret[p] = "true" THEN 200 ELSE 429,
                        ![p].nextCalls = @ + 1]
    /\ MwFrame

\* if !rateLimiter.Allow(clientIP) { ... w.WriteHeader(429); return }
\* next.ServeHTTP(w, r), which answers the request (200 in the model)
MwDecide(p) ==
    /\ mw[p].stage = "received"
    /\ pc[p] = "done"
    /\ mw' = [mw EXCEPT ![p] =
                IF ret[p] = "true"
                THEN [@ EXCEPT !.stage = "responded", !.status = 200,
                               !.nextCalls = @ + 1]
                ELSE [@ EXCEPT !.stage = "responded", !.status = 429]]
    /\ MwFrame

\* the middleware returns; the goroutine is free for its next request
MwReturn(p) ==
    /\ mw[p].stage = "responded"
    /\ Return(p)

\* SpecHttp: requests through the middleware in a burst, during which the
\* clock does not advance
InitHttp ==
    /\ \E c \in BurstConfigs : InitLimiter(c)
    /\ burst = BurstStart
    /\ InitTb(0, 0)
    /\ InitBatchIdle
    /\ InitHttpIdle
    /\ InitGateIdle
    /\ InitSweepIdle

NextHttp ==
    \/ \E p \in Procs, id \in Idents : MwReceive(p, id)
    \/ \E p \in Procs : MwAllow(p)
    \/ \E p \in Procs : GlobalAllow(p)
    \/ \E p \in Procs : Load(p)
    \/ \E p \in Procs : Store(p)
    \/ \E p \in Procs : IPAllow(p)
    \/ \E p \in Procs : ReturnToken(p)
    \/ \E p \in Procs : MwDecide(p)
    \/ \E p \in Procs : MwReturn(p)

SpecHttp == InitHttp /\ [][NextHttp]_vars

\* ------------------------------------------------- domainAnalysis, data

MaxBatch == 2       \* len(domains) is drawn from 0..MaxBatch
MaxConcurrent == 2  \* s.maxConcurrent is drawn from 0..MaxConcurrent

\* advertiser domains (AdsTxtEntry.ExchangeDomain) as byte strings: "a", "ab", "b"
AdvA == <<1>>
AdvAB == <<1, 2>>
AdvB == <<2>>

\* Go's s < t on strings: bytewise lexicographic, a proper prefix is smaller
LexLess(s, t) ==
    \E k \in 1..Len(t) :
        /\ \A j \in 1..(k - 1) : j <= Len(s) /\ s[j] = t[j]
        /\ k > Len(s) \/ s[k] < t[k]

\* the entries parser.Parse returns for the ads.txt files of the model
EntriesB2A1 == <<AdvB, AdvA, AdvB>>
EntriesAB1A1 == <<AdvAB, AdvA>>

\* parser.CountAdvertisers: counts[entry.ExchangeDomain]++ for each entry
CountAdvertisers(entries) ==
    [a \in {entries[k] : k \in 1..Len(entries)} |->
        Cardinality({k \in 1..Len(entries) : entries[k] = a})]

\* the []AdvertiserInfo a `for domain, count := range counts` loop can append:
\* the map's pairs in any order
RangeOrders(counts) ==
    LET items == {[Domain |-> a, Count |-> counts[a]] : a \in DOMAIN counts}
        n == Cardinality(items)
    IN {s \in [1..n -> items] : \A i, j \in 1..n : i # j => s[i] # s[j]}

\* a variant of the total that counts the advertisers
SumCountsDistinct(advertisers) == Len(advertisers)

RECURSIVE SumCounts(_)
\* totalCount += count over the loop
SumCounts(advertisers) ==
    IF advertisers = << >> THEN 0
    ELSE advertisers[1].Count + SumCounts(Tail(advertisers))

\* a variant of the comparison that orders by count alone
AdvertiserLessNoTieBreak(x, y) == x.Count > y.Count

\* a variant of the comparison with the order of the counts reversed
AdvertiserLessAscending(x, y) ==
    IF x.Count = y.Count THEN LexLess(x.Domain, y.Domain) ELSE x.Count < y.Count

\* the less function given to sort.Slice (lines 222-227 and 276-281)
AdvertiserLess(x, y) ==
    IF x.Count = y.Count THEN LexLess(x.Domain, y.Domain) ELSE x.Count > y.Count

RECURSIVE InsertSorted(_, _)
\* sort.Slice's insertion step: x moves left while less(x, the element before it)
InsertSorted(s, x) ==
    IF s = << >> THEN <<x>>
    ELSE IF AdvertiserLess(x, s[Len(s)])
         THEN Append(InsertSorted(SubSeq(s, 1, Len(s) - 1), x), s[Len(s)])
         ELSE Append(s, x)

RECURSIVE SortSlice(_)
\* sort.Slice(advertisers, less): insertion sort, which Go uses below 12 elements
SortSlice(advertisers) ==
    IF advertisers = << >> THEN << >>
    ELSE InsertSorted(SortSlice(SubSeq(advertisers, 1, Len(advertisers) - 1)),
                      advertisers[Len(advertisers)])

\* the DomainAnalysis values buildAnalysis(domain, entries) can return
buildAnalysis(domain, entries) ==
    {[Domain |-> domain,
      TotalAdvertisers |-> SumCounts(order),
      Advertisers |-> SortSlice(order),
      Cached |-> FALSE] : order \in RangeOrders(CountAdvertisers(entries))}

EmptyCounts == [a \in {} |-> 0]

\* a variant of the fold that overwrites the count
AddCountOverwrite(m, advertiser) ==
    [a \in DOMAIN m \cup {advertiser.Domain} |->
        IF a = advertiser.Domain THEN advertiser.Count ELSE m[a]]

\* advertiserCounts[advertiser.Domain] += advertiser.Count
AddCount(m, advertiser) ==
    [a \in DOMAIN m \cup {advertiser.Domain} |->
        IF a = advertiser.Domain
        THEN (IF a \in DOMAIN m THEN m[a] ELSE 0) + advertiser.Count
        ELSE m[a]]

RECURSIVE FoldAdvertisers(_, _)
\* lines 256-258: for _, advertiser := range result.Advertisers
FoldAdvertisers(m, advertisers) ==
    IF advertisers = << >> THEN m
    ELSE FoldAdvertisers(AddCount(m, advertisers[1]), Tail(advertisers))

\* ---------------------------------------------- domainAnalysis, actions

rlVars == <<limVars, procVars, callVars, burst, tbVars, httpVars, gateVars, sweepVars>>

IsNone(x) == "none" \in DOMAIN x

NoError == [none |-> TRUE]

\* models.NewDomainError(domain, message, err)
NewDomainError(domain, message, err) == [Domain |-> domain, Message |-> message, Err |-> err]

\* DomainError.Error(): "domain %s: %s: %v"
ErrorString(e) == <<"domain", e.Domain, e.Message, e.Err>>

\* what the collaborators answer for one domain: whether the cache holds an
\* analysis of it (built from cachedFrom by an earlier call), whether Fetch
\* succeeds, whether Parse succeeds, and the entries Parse returns
DomainWorlds ==
    {[isCached |-> FALSE, cachedFrom |-> << >>, fetchOk |-> FALSE, parseOk |-> FALSE,
      entries |-> << >>],
     [isCached |-> FALSE, cachedFrom |-> << >>, fetchOk |-> TRUE, parseOk |-> FALSE,
      entries |-> << >>],
     [isCached |-> FALSE, cachedFrom |-> << >>, fetchOk |-> TRUE, parseOk |-> TRUE,
      entries |-> EntriesB2A1],
     [isCached |-> FALSE, cachedFrom |-> << >>, fetchOk |-> TRUE, parseOk |-> TRUE,
      entries |-> EntriesAB1A1],
     [isCached |-> TRUE, cachedFrom |-> EntriesB2A1, fetchOk |-> TRUE, parseOk |-> TRUE,
      entries |-> EntriesAB1A1]}

\* the worlds of the model: two fresh successes with a common advertiser, a
\* fetch failure beside a stale cache entry, a parse failure beside a fresh
\* success, a stale cache entry beside a fresh success
Worlds ==
    {w \in [Domains -> DomainWorlds] :
        \/ ~w["d1"].isCached /\ w["d1"].entries = EntriesB2A1
           /\ ~w["d2"].isCached /\ w["d2"].entries = EntriesAB1A1
        \/ ~w["d1"].fetchOk /\ w["d2"].isCached
        \/ w["d1"].fetchOk /\ ~w["d1"].parseOk
           /\ ~w["d2"].isCached /\ w["d2"].entries = EntriesB2A1
        \/ w["d1"].isCached /\ ~w["d2"].isCached /\ w["d2"].entries = EntriesAB1A1}

\* the cache behind domainCache: cache.NewMemoryCache keeps the very
\* *DomainAnalysis it is given; a remote cache keeps its JSON, honours the
\* context, and its Set may fail
Backends ==
    {[backend |-> "memory", setOk |-> TRUE],
     [backend |-> "redis", setOk |-> TRUE],
     [backend |-> "redis", setOk |-> FALSE]}

Tasks == 1..Len(domains)

NoResult == [via |-> "none", analysis |-> NoAnalysis, err |-> NoError]

\* lines 112-188 on the calling goroutine: the empty list returns at once;
\* otherwise the aggregator is started, each domain gets wg.Add(1) and its
\* worker, and the closer is started. Nothing a worker does before the loop
\* ends is seen by the loop, so the loop is one step
Begin ==
    /\ mainpc = "start"
    /\ IF Len(domains) = 0
       THEN /\ response' = [Results |-> << >>, Summary |-> NoSummary,
                            Advertisers |-> << >>, TotalAdvertisers |-> 0,
                            err |-> NoError]
            /\ mainpc' = "returned"
            /\ UNCHANGED <<aggpc, summary, wg, wpc, closerpc>>
       ELSE /\ aggpc' = "range"
            /\ summary' = [NoSummary EXCEPT !.Total = Len(domains)]
            /\ wg' = Len(domains)
            /\ wpc' = [i \in Tasks |-> "acquire"]
            /\ closerpc' = "wait"
            /\ mainpc' = "recv"
            /\ UNCHANGED response
    /\ UNCHANGED <<rlVars, domains, maxConcurrent, env, dcache, sem, resultsChan,
                   chanClosed, wres, stages, lateInvoke, results, advertiserCounts,
                   responseChan, bctxDone>>

\* a variant in which a worker does not wait for a slot once ctx is done
AcquireOrSkip(i) ==
    /\ wpc[i] = "acquire"
    /\ IF bctxDone
       THEN /\ wpc' = [wpc EXCEPT ![i] = "publish"]
            /\ wres' = [wres EXCEPT ![i] =
                          [via |-> "failed", analysis |-> NoAnalysis,
                           err |-> NewDomainError(domains[i], "cancelled", "ctx")]]
            /\ sem' = sem + 1
       ELSE /\ sem < maxConcurrent
            /\ sem' = sem + 1
            /\ wpc' = [wpc EXCEPT ![i] = "lookup"]
            /\ UNCHANGED wres
    /\ lateInvoke' = [lateInvoke EXCEPT ![i] = bctxDone]
    /\ UNCHANGED <<rlVars, domains, maxConcurrent, env, dcache, wg, resultsChan,
                   chanClosed, stages, results, summary, advertiserCounts, aggpc,
                   responseChan, closerpc, mainpc, response, bctxDone>>

\* a variant with a channel that never fills
AcquireUnbounded(i) ==
    /\ wpc[i] = "acquire"
    /\ sem' = sem + 1
    /\ wpc' = [wpc EXCEPT ![i] = "lookup"]
    /\ lateInvoke' = [lateInvoke EXCEPT ![i] = bctxDone]
    /\ UNCHANGED <<rlVars, domains, maxConcurrent, env, dcache, wg, resultsChan,
                   chanClosed, wres, stages, results, summary, advertiserCounts, aggpc,
                   responseChan, closerpc, mainpc, response, bctxDone>>

\* lines 149-154: sem <- struct{}{}, which blocks while sem is full, whatever
\* the state of ctx; then context.WithTimeout(ctx, 30s)
Acquire(i) ==
    /\ wpc[i] = "acquire"
    /\ sem < maxConcurrent
    /\ sem' = sem + 1
    /\ wpc' = [wpc EXCEPT ![i] = "lookup"]
    /\ lateInvoke' = [lateInvoke EXCEPT ![i] = bctxDone]
    /\ UNCHANGED <<rlVars, domains, maxConcurrent, env, dcache, wg, resultsChan,
                   chanClosed, wres, stages, results, summary, advertiserCounts, aggpc,
                   responseChan, closerpc, mainpc, response, bctxDone>>

\* the frame of a step of the worker of task i inside AnalyzeDomain
PipelineFrame ==
    UNCHANGED <<rlVars, domains, maxConcurrent, env, sem, wg, resultsChan, chanClosed,
                lateInvoke, results, summary, advertiserCounts, aggpc, responseChan,
                closerpc, mainpc, response, bctxDone>>

\* a variant of the hit path that returns the cached object without marking it
LookupHitUnmarked(i) ==
    /\ wres' = [wres EXCEPT ![i] = [via |-> "cache",
                                    analysis |-> dcache[domains[i]].analysis,
                                    err |-> NoError]]
    /\ wpc' = [wpc EXCEPT ![i] = "publish"]
    /\ UNCHANGED dcache

\* lines 48-56: cached.Cached = true; return cached, nil. The memory cache
\* hands out the very object it stores, so the flag is set on the stored
\* object, which is also the one the task that built it may still hold
LookupHit(i) ==
    LET d == domains[i]
        c == dcache[d]
        hit == [c.analysis EXCEPT !.Cached = TRUE]
        holds(k) == /\ k \in Tasks
                    /\ k = c.owner
                    /\ wpc[k] = "publish"
                    /\ wres[k].via \in {"fresh", "cache"}
    IN /\ IF env.backend = "memory"
          THEN /\ dcache' = [dcache EXCEPT ![d].analysis = hit]
               /\ wres' = [k \in Tasks |->
                             IF k = i
                             THEN [via |-> "cache", analysis |-> hit, err |-> NoError]
                             ELSE IF holds(k) /\ wres[k].analysis = c.analysis
                                  THEN [wres[k] EXCEPT !.analysis = hit]
                                  ELSE wres[k]]
          ELSE /\ wres' = [wres EXCEPT ![i] =
                             [via |-> "cache", analysis |-> hit, err |-> NoError]]
               /\ UNCHANGED dcache
       /\ wpc' = [wpc EXCEPT ![i] = "publish"]

\* line 48: s.domainCache.Get(ctx, domain). A remote cache gives up on a
\* context that is done, and that is a miss like any other error
Lookup(i) ==
    /\ wpc[i] = "lookup"
    /\ stages' = [stages EXCEPT ![i] = @ \cup {"CacheLookup"}]
    /\ \/ /\ ~IsNone(dcache[domains[i]])
          /\ LookupHit(i)
       \/ /\ IsNone(dcache[domains[i]])
          /\ wpc' = [wpc EXCEPT ![i] = "fetch"]
          /\ UNCHANGED <<wres, dcache>>
       \/ /\ ~IsNone(dcache[domains[i]])
          /\ env.backend = "redis"
          /\ bctxDone
          /\ wpc' = [wpc EXCEPT ![i] = "fetch"]
          /\ UNCHANGED <<wres, dcache>>
    /\ PipelineFrame

\* a variant of the failure that goes on to Parse and stores an empty analysis
PipelineFailsThenStores(i, ran, message, cause) ==
    /\ stages' = [stages EXCEPT ![i] = @ \cup ran \cup {"Parse", "CacheStore"}]
    /\ wres' = [wres EXCEPT ![i] =
                  [via |-> "failed", analysis |-> NoAnalysis,
                   err |-> NewDomainError(domains[i], message, cause)]]
    /\ dcache' = [dcache EXCEPT ![domains[i]] =
                    [analysis |-> [Domain |-> domains[i], TotalAdvertisers |-> 0,
                                   Advertisers |-> << >>, Cached |-> FALSE],
                     owner |-> 0]]

\* lines 63-69, 77-84: the wrapped failure of Fetch or of Parse
PipelineFails(i, ran, message, cause) ==
    /\ stages' = [stages EXCEPT ![i] = @ \cup ran]
    /\ wres' = [wres EXCEPT ![i] =
                  [via |-> "failed", analysis |-> NoAnalysis,
                   err |-> NewDomainError(domains[i], message, cause)]]
    /\ UNCHANGED dcache

\* a variant in which a failed Set fails the analysis
StoreOrFail(i, a, setOk) ==
    /\ stages' = [stages EXCEPT ![i] = @ \cup {"Fetch", "Parse", "Count", "CacheStore"}]
    /\ IF setOk
       THEN /\ dcache' = [dcache EXCEPT ![domains[i]] =
                            [analysis |-> a,
                             owner |-> IF env.backend = "memory" THEN i ELSE 0]]
            /\ wres' = [wres EXCEPT ![i] = [via |-> "fresh", analysis |-> a, err |-> NoError]]
       ELSE /\ wres' = [wres EXCEPT ![i] =
                          [via |-> "failed", analysis |-> NoAnalysis,
                           err |-> NewDomainError(domains[i], "failed to cache", "set")]]
            /\ UNCHANGED dcache

\* lines 92-108: buildAnalysis, then Set, whose error is logged and dropped
StoreBestEffort(i, a, setOk) ==
    /\ stages' = [stages EXCEPT ![i] = @ \cup {"Fetch", "Parse", "Count", "CacheStore"}]
    /\ wres' = [wres EXCEPT ![i] = [via |-> "fresh", analysis |-> a, err |-> NoError]]
    /\ IF setOk
       THEN dcache' = [dcache EXCEPT ![domains[i]] =
                         [analysis |-> a,
                          owner |-> IF env.backend = "memory" THEN i ELSE 0]]
       ELSE UNCHANGED dcache

\* lines 58-108: Fetch, Parse, buildAnalysis and Set after a miss. When ctx
\* is done the fetch may fail whatever the site would have answered
Fetch(i) ==
    LET w == env.world[domains[i]]
    IN /\ wpc[i] = "fetch"
       /\ wpc' = [wpc EXCEPT ![i] = "publish"]
       /\ \/ /\ bctxDone
             /\ PipelineFails(i, {"Fetch"}, "failed to fetch ads.txt", "context")
          \/ /\ ~w.fetchOk
             /\ PipelineFails(i, {"Fetch"}, "failed to fetch ads.txt", "fetch")
          \/ /\ w.fetchOk /\ ~w.parseOk
             /\ PipelineFails(i, {"Fetch", "Parse"}, "failed to parse ads.txt", "parse")
          \/ /\ w.fetchOk /\ w.parseOk
             /\ \E a \in buildAnalysis(domains[i], w.entries) :
                    StoreBestEffort(i, a, env.setOk)
       /\ PipelineFrame

\* lines 156-177: the DomainResult of task i (task is the position of the
\* domain in the input, which the program does not keep)
DomainResult(i) ==
    IF ~IsNone(wres[i].err)
    THEN [Domain |-> domains[i], TotalAdvertisers |-> 0, Advertisers |-> << >>,
          Cached |-> FALSE, Error |-> ErrorString(wres[i].err), Success |-> FALSE,
          task |-> i]
    ELSE [Domain |-> domains[i],
          TotalAdvertisers |-> wres[i].analysis.TotalAdvertisers,
          Advertisers |-> wres[i].analysis.Advertisers,
          Cached |-> wres[i].analysis.Cached, Error |-> << >>, Success |-> TRUE,
          task |-> i]

\* a variant of the send in which the worker counts its own outcome
PublishAndCount(i) ==
    /\ wpc[i] = "publish"
    /\ Len(resultsChan) < Len(domains)
    /\ resultsChan' = Append(resultsChan, DomainResult(i))
    /\ summary' = IF DomainResult(i).Success
                  THEN summary
                  ELSE [summary EXCEPT !.Failed = Min(@ + 1, Len(domains))]
    /\ wpc' = [wpc EXCEPT ![i] = "release"]
    /\ UNCHANGED <<rlVars, domains, maxConcurrent, env, dcache, sem, wg, chanClosed,
                   wres, stages, lateInvoke, results, advertiserCounts, aggpc,
                   responseChan, closerpc, mainpc, response, bctxDone>>

\* a variant of the send on a queue one place shorter than the input
PublishShortQueue(i) ==
    /\ wpc[i] = "publish"
    /\ Len(resultsChan) < Len(domains) - 1
    /\ resultsChan' = Append(resultsChan, DomainResult(i))
    /\ wpc' = [wpc EXCEPT ![i] = "release"]
    /\ UNCHANGED <<rlVars, domains, maxConcurrent, env, dcache, sem, wg, chanClosed,
                   wres, stages, lateInvoke, results, summary, advertiserCounts, aggpc,
                   responseChan, closerpc, mainpc, response, bctxDone>>

\* line 180: resultsChan <- result, on a channel of capacity len(domains)
Publish(i) ==
    /\ wpc[i] = "publish"
    /\ Len(resultsChan) < Len(domains)
    /\ resultsChan' = Append(resultsChan, DomainResult(i))
    /\ wpc' = [wpc EXCEPT ![i] = "release"]
    /\ UNCHANGED <<rlVars, domains, maxConcurrent, env, dcache, sem, wg, chanClosed,
                   wres, stages, lateInvoke, results, summary, advertiserCounts, aggpc,
                   responseChan, closerpc, mainpc, response, bctxDone>>

\* a variant of the way out that keeps the slot
ReleaseKeepsSlot(i) ==
    /\ wpc[i] = "release"
    /\ wg' = wg - 1
    /\ wpc' = [wpc EXCEPT ![i] = "finished"]
    /\ UNCHANGED <<rlVars, domains, maxConcurrent, env, dcache, sem, resultsChan,
                   chanClosed, wres, stages, lateInvoke, results, summary,
                   advertiserCounts, aggpc, responseChan, closerpc, mainpc, response,
                   bctxDone>>

\* lines 146 and 150, the deferred calls on the way out: <-sem, then wg.Done()
Release(i) ==
    /\ wpc[i] = "release"
    /\ sem > 0
    /\ sem' = sem - 1
    /\ wg' = wg - 1
    /\ wpc' = [wpc EXCEPT ![i] = "finished"]
    /\ UNCHANGED <<rlVars, domains, maxConcurrent, env, dcache, resultsChan,
                   chanClosed, wres, stages, lateInvoke, results, summary,
                   advertiserCounts, aggpc, responseChan, closerpc, mainpc, response,
                   bctxDone>>

\* a variant of the closer that does not wait for the workers
CloserCloseNoWait ==
    /\ closerpc = "wait"
    /\ chanClosed' = TRUE
    /\ closerpc' = "closed"
    /\ UNCHANGED <<rlVars, domains, maxConcurrent, env, dcache, sem, wg, resultsChan,
                   wpc, wres, stages, lateInvoke, results, summary, advertiserCounts,
                   aggpc, responseChan, mainpc, response, bctxDone>>

\* lines 185-188: wg.Wait(); close(resultsChan)
CloserClose ==
    /\ closerpc = "wait"
    /\ wg = 0
    /\ chanClosed' = TRUE
    /\ closerpc' = "closed"
    /\ UNCHANGED <<rlVars, domains, maxConcurrent, env, dcache, sem, wg, resultsChan,
                   wpc, wres, stages, lateInvoke, results, summary, advertiserCounts,
                   aggpc, responseChan, mainpc, response, bctxDone>>

AggFrame ==
    UNCHANGED <<rlVars, domains, maxConcurrent, env, dcache, sem, wg, chanClosed, wpc,
                wres, stages, lateInvoke, closerpc, mainpc, response, bctxDone>>

\* a variant of the loop body that counts every result as succeeded
TallyAllSucceeded(result) ==
    /\ summary' = [summary EXCEPT !.Succeeded = @ + 1]
    /\ advertiserCounts' = FoldAdvertisers(advertiserCounts, result.Advertisers)

\* lines 252-261: the summary and the advertiser table after one result
Tally(result) ==
    IF result.Success
    THEN /\ summary' = [summary EXCEPT !.Succeeded = @ + 1]
         /\ advertiserCounts' = FoldAdvertisers(advertiserCounts, result.Advertisers)
    ELSE /\ summary' = [summary EXCEPT !.Failed = @ + 1]
         /\ UNCHANGED advertiserCounts

\* lines 247-262: one round of `for result := range resultsChan`
AggReceive ==
    /\ aggpc = "range"
    /\ resultsChan # << >>
    /\ resultsChan' = Tail(resultsChan)
    /\ results' = Append(results, Head(resultsChan))
    /\ Tally(Head(resultsChan))
    /\ UNCHANGED <<aggpc, responseChan>>
    /\ AggFrame

\* lines 265-290: the loop ends when the channel is closed and drained; the
\* table becomes a slice in the map's order, is sorted, and the response is sent
AggFinish ==
    /\ aggpc = "range"
    /\ resultsChan = << >>
    /\ chanClosed
    /\ \E order \in RangeOrders(advertiserCounts) :
           responseChan' = [Results |-> results, Summary |-> summary,
                            Advertisers |-> SortSlice(order),
                            TotalAdvertisers |-> SumCounts(order),
                            err |-> NoError]
    /\ aggpc' = "sent"
    /\ UNCHANGED <<resultsChan, results, summary, advertiserCounts>>
    /\ AggFrame

\* lines 191-202: response := <-responseChan; return response, nil
Receive ==
    /\ mainpc = "recv"
    /\ ~IsNone(responseChan)
    /\ response' = responseChan
    /\ responseChan' = NoResponse
    /\ mainpc' = "returned"
    /\ UNCHANGED <<rlVars, domains, maxConcurrent, env, dcache, sem, wg, resultsChan,
                   chanClosed, wpc, wres, stages, lateInvoke, results, summary,
                   advertiserCounts, aggpc, closerpc, bctxDone>>

\* the caller's ctx is cancelled while the call runs
BatchCancel ==
    /\ mainpc \in {"loop", "recv"}
    /\ ~bctxDone
    /\ bctxDone' = TRUE
    /\ UNCHANGED <<rlVars, domains, maxConcurrent, env, dcache, sem, wg, resultsChan,
                   chanClosed, wpc, wres, stages, lateInvoke, results, summary,
                   advertiserCounts, aggpc, responseChan, closerpc, mainpc, response>>

\* the cache before the call: what an earlier analysis of the domain left
CacheBefore(world) ==
    [d \in Domains |->
        IF world[d].isCached
        THEN [analysis |-> CHOOSE a \in buildAnalysis(d, world[d].cachedFrom) : TRUE,
              owner |-> 0]
        ELSE NoAnalysis]

\* the lists of n domains, duplicates included; the workers differ in their
\* domain alone, so a list stands for its rearrangements
Inputs(n) ==
    {ds \in [1..n -> Domains] :
        \A i \in 1..(n - 1) : ds[i] = "d2" => ds[i + 1] = "d2"}

\* one AnalyzeDomains(ctx, domains) call about to start, on a Service built by
\* NewService(..., maxConcurrent), in one of the given worlds and with one of
\* the given caches
InitBatchIn(worlds, backends) ==
    /\ InitLimiter([gcap |-> 0, grate |-> 0, pcap |-> 0, prate |-> 0])
    /\ burst = BurstOff
    /\ InitTb(0, 0)
    /\ InitHttpIdle
    /\ InitGateIdle
    /\ InitSweepIdle
    /\ \E n \in 0..MaxBatch :
         \E ds \in Inputs(n), m \in 0..MaxConcurrent,
            world \in worlds, backend \in backends :
            /\ domains = ds
            /\ maxConcurrent = m
            /\ env = [backend |-> backend.backend, setOk |-> backend.setOk,
                      world |-> world]
            /\ dcache = CacheBefore(world)
            /\ wpc = [i \in 1..n |-> "new"]
            /\ wres = [i \in 1..n |-> NoResult]
            /\ stages = [i \in 1..n |-> {}]
            /\ lateInvoke = [i \in 1..n |-> FALSE]
    /\ sem = 0
    /\ wg = 0
    /\ resultsChan = << >>
    /\ chanClosed = FALSE
    /\ results = << >>
    /\ summary = NoSummary
    /\ advertiserCounts = EmptyCounts
    /\ aggpc = "off"
    /\ responseChan = NoResponse
    /\ closerpc = "off"
    /\ mainpc = "start"
    /\ response = NoResponse
    /\ bctxDone = FALSE

\* SpecBatch: the call with its workers, aggregator and closer
InitBatch == InitBatchIn(Worlds, Backends)

NextBatch ==
    \/ Begin
    \/ \E i \in Tasks : Acquire(i)
    \/ \E i \in Tasks : Lookup(i)
    \/ \E i \in Tasks : Fetch(i)
    \/ \E i \in Tasks : Publish(i)
    \/ \E i \in Tasks : Release(i)
    \/ CloserClose
    \/ AggReceive
    \/ AggFinish
    \/ Receive
    \/ BatchCancel

SpecBatch == InitBatch /\ [][NextBatch]_vars

\* the steps of the goroutine of task i
WorkerStep(i) ==
    /\ i \in Tasks
    /\ \/ Acquire(i)
       \/ Lookup(i)
       \/ Fetch(i)
       \/ Publish(i)
       \/ Release(i)

\* the steps of the calling goroutine
CallerStep ==
    \/ Begin
    \/ Receive

\* the world in which a call meets every way out of AnalyzeDomain: "d1" fails
\* to parse, "d2" is analysed afresh and, listed twice, found in the cache
LiveWorlds == {w \in Worlds : w["d1"].fetchOk /\ ~w["d1"].parseOk}

LiveBackends == {b \in Backends : b.setOk}

InitBatchLive == InitBatchIn(LiveWorlds, LiveBackends)

\* SpecBatchLive: the call under a scheduler that runs every goroutine that
\* can take a step; AnalyzeDomain returns, so a worker inside it steps
SpecBatchLive ==
    /\ InitBatchLive
    /\ [][NextBatch]_vars
    /\ WF_vars(CallerStep)
    /\ \A i \in 1..MaxBatch : WF_vars(WorkerStep(i))
    /\ WF_vars(CloserClose)
    /\ WF_vars(AggReceive)
    /\ WF_vars(AggFinish)

\* ----------------------------------------------------------------- claims

BucketInRange(b) == 0 <= b.tokens /\ b.tokens <= b.capacity

\* C1 (TokenBucket capacity invariant): in every reachable state every bucket,
\* the global one, each per-identifier bucket of the registry and each bucket
\* getOrCreateIPBucket has made and not yet stored, has 0 <= tokens <= capacity,
\* whatever the interleaving of Allow calls, refills by elapsed time and
\* compensating returns.
C1_CapacityInvariant ==
    /\ BucketInRange(globalBucket)
    /\ \A i \in DOMAIN buckets : BucketInRange(buckets[i])
    /\ \A p \in Procs : BucketInRange(newBucket[p])

\* a call was denied by a per-identifier bucket that a refill has since filled
\* again, and its compensating return found the global bucket refilled to capacity
C1_Witness ==
    \E p \in Procs :
        /\ pc[p] = "done" /\ ret[p] = "false" /\ ipBucket[p] # 0
        /\ gFull[p]
        /\ globalBucket.capacity > 0
        /\ globalBucket.tokens = globalBucket.capacity
        /\ buckets[ipBucket[p]].capacity > 0
        /\ buckets[ipBucket[p]].tokens = 0
        /\ ~Counting

\* C5 (denial storm): while several callers are denied at the per-identifier
\* tier and run their compensating returns among the other callers' global
\* decrements and the refills, the global bucket never holds more tokens than
\* its capacity.
C5_DenialStorm ==
    (\E p \in Procs : pc[p] = "return" \/ (pc[p] = "done" /\ ret[p] = "false" /\ ipBucket[p] # 0))
        => globalBucket.tokens <= globalBucket.capacity

\* one denied caller has returned its token, the global bucket is full, and
\* another denied caller is about to run its return
C5_Witness ==
    \E p, q \in Procs :
        /\ p # q
        /\ pc[p] = "return"
        /\ pc[q] = "done" /\ ret[q] = "false" /\ ipBucket[q] # 0
        /\ globalBucket.capacity > 0
        /\ globalBucket.tokens = globalBucket.capacity

\* the step in which goroutine p's Allow is denied by the global bucket
GlobalDenialStep(p) ==
    /\ pc[p] = "global"
    /\ pc'[p] = "done"
    /\ ret'[p] = "false"

\* C6 (global denial leaves the identifier tier alone): the step in which the
\* global bucket denies returns false, creates no registry entry, and changes no
\* per-identifier bucket (neither its tokens nor its lastRefill).
C6_GlobalDenialFrame ==
    [][\A p \in Procs : GlobalDenialStep(p) =>
            /\ ipBuckets' = ipBuckets
            /\ buckets' = buckets
            /\ newBucket' = newBucket]_vars

\* a call for an identifier without a registry entry has been denied by the
\* global bucket while another identifier has a bucket
C6_Witness ==
    \E p \in Procs :
        /\ pc[p] = "done" /\ ret[p] = "false" /\ ipBucket[p] = 0
        /\ ipBuckets[clientIP[p]] = 0
        /\ Len(buckets) > 0

TbCallsAtZero == {i \in 1..Len(tbLog.calls) : tbLog.calls[i].at = 0}

\* C2 (saturation): a fresh bucket of capacity C admits exactly the first C
\* Allow calls made while no time elapses and denies the others; once those C
\* calls are made, every Allow made less than 1/refillRate seconds after the
\* creation is denied (at ticks, at / TicksPerSec < 1 / refillRate).
C2_Saturation ==
    /\ \A i \in TbCallsAtZero : tbLog.calls[i].ok <=> i <= tb.capacity
    /\ \A i \in 1..Len(tbLog.calls) :
         (/\ Cardinality(TbCallsAtZero) >= tb.capacity
          /\ tbLog.calls[i].at > 0
          /\ tbLog.calls[i].at * tb.refillRate < TicksPerSec)
            => ~tbLog.calls[i].ok

\* a bucket of capacity C > 0 admitted C calls, denied the next one made at once
\* and one made after some time shorter than 1/refillRate, and admitted one
\* made once 1/refillRate had elapsed
C2_Witness ==
    /\ tb.capacity > 0 /\ tb.refillRate > 0
    /\ Cardinality(TbCallsAtZero) = tb.capacity + 1
    /\ \E i, j \in 1..Len(tbLog.calls) :
         /\ tbLog.calls[i].at > 0
         /\ tbLog.calls[i].at * tb.refillRate < TicksPerSec
         /\ ~tbLog.calls[i].ok
         /\ tbLog.calls[j].at * tb.refillRate >= TicksPerSec
         /\ tbLog.calls[j].ok

\* C3 (global limit across identifiers): with global capacity G and no time
\* elapsing, the Allow calls that return true, over all identifiers and any
\* interleaving of the callers, number at most G, also while identifiers have
\* per-identifier tokens left.
C3_GlobalLimit == TotalAdmitted <= cfg.gcap

\* G > 0 calls were admitted for two identifiers, and a further call was denied
\* by the global bucket although its identifier has tokens left
C3_Witness ==
    /\ cfg.gcap > 0
    /\ TotalAdmitted = cfg.gcap
    /\ \E a, b \in Idents : a # b /\ Admitted(a) > 0 /\ Admitted(b) > 0
    /\ \E p \in Procs :
         /\ pc[p] = "done" /\ ret[p] = "false" /\ ipBucket[p] = 0
         /\ IdTokens(clientIP[p]) > 0

\* the number of calls at the head of the burst that were all made for identifier a
RunLen(a) ==
    Cardinality({k \in 1..Len(burst.log) : \A i \in 1..k : burst.log[i].id = a})

\* a burst of sequential calls that starts with more than P calls for identifier
\* a, under a per-identifier capacity P below the global capacity G
SequentialRun(a) ==
    /\ Counting
    /\ ~burst.overlapped
    /\ cfg.pcap < cfg.gcap
    /\ RunLen(a) > cfg.pcap

\* the run admits exactly its first P calls
RunAdmitsFirstP(a) ==
    \A i \in 1..RunLen(a) : burst.log[i].ok <=> i <= cfg.pcap

\* after the run, every denial having returned its token, the global bucket
\* holds G - P tokens
RunLeavesGMinusP(a) ==
    (Len(burst.log) = RunLen(a) /\ \A p \in Procs : ~Busy(p))
        => globalBucket.tokens = cfg.gcap - cfg.pcap

\* the request that follows the run, from a different identifier, is admitted
NextIdentAdmitted(a) ==
    Len(burst.log) > RunLen(a) => burst.log[RunLen(a) + 1].ok

\* C4 as stated (compensation correctness): with P < G and no time elapsing,
\* sequentially issuing more than P requests from one identifier admits exactly
\* the first P and denies the rest, leaves the global bucket with G - P tokens,
\* and a request from a different identifier is then admitted.
C4_AsStated ==
    \A a \in Idents :
        SequentialRun(a) =>
            /\ RunAdmitsFirstP(a)
            /\ RunLeavesGMinusP(a)
            /\ NextIdentAdmitted(a)

\* C4 (compensation correctness), amended: as stated, but the request from a
\* different identifier is admitted when P >= 1; with P = 0 it is denied by its
\* own per-identifier bucket.
C4_Compensation ==
    \A a \in Idents :
        SequentialRun(a) =>
            /\ RunAdmitsFirstP(a)
            /\ RunLeavesGMinusP(a)
            /\ cfg.pcap >= 1 => NextIdentAdmitted(a)

\* a sequential run of P + 1 >= 2 calls for one identifier was followed by an
\* admitted call for another, and the global bucket then holds G - P - 1 tokens
C4_Witness ==
    \E a \in Idents :
        /\ SequentialRun(a)
        /\ cfg.pcap >= 1
        /\ Len(burst.log) = RunLen(a) + 1
        /\ burst.log[RunLen(a) + 1].ok
        /\ \A p \in Procs : ~Busy(p)
        /\ globalBucket.tokens = cfg.gcap - cfg.pcap - 1

\* C8 (atomic get-or-create): every caller that has got its identifier's bucket
\* holds the bucket the registry has for that identifier; the registry stores
\* exactly one bucket per entry, and its entries are the identifiers seen; with
\* no time elapsing the callers of one identifier are admitted at most P times.
C8_GetOrCreate ==
    /\ \A p \in Procs : ipBucket[p] # 0 => ipBucket[p] = ipBuckets[clientIP[p]]
    /\ Len(buckets) = Cardinality({id \in Idents : ipBuckets[id] # 0})
    /\ {id \in Idents : ipBuckets[id] # 0} = burst.seen
    /\ \A id \in Idents : Admitted(id) <= cfg.pcap

\* two callers made their first Allow for one identifier concurrently: both
\* missed in Load; one has stored its bucket and consumed from it, the other is
\* about to run LoadOrStore with a bucket of its own
C8_Witness ==
    \E p, q \in Procs :
        /\ p # q
        /\ clientIP[p] = clientIP[q]
        /\ pc[p] = "store"
        /\ pc[q] = "done" /\ ret[q] = "true"
        /\ ipBucket[q] = ipBuckets[clientIP[q]]
        /\ Len(buckets) = 1
        /\ cfg.pcap = 1
        /\ burst.issued[p] = 1 /\ burst.issued[q] = 1

WaitReturnedNil(p) == pc[p] = "done" /\ op[p] = "Wait" /\ ret[p] = "nil"

\* C10 as stated (Wait liveness): with strictly positive refill rates and
\* contexts that are never cancelled, every Wait call that found the buckets
\* exhausted eventually returns nil.
C10_AsStated ==
    \A p \in Procs : (Busy(p) /\ denied[p]) ~> WaitReturnedNil(p)

\* C10 (Wait liveness), amended: with strictly positive refill rates and
\* strictly positive capacities of both tiers, and contexts that are never
\* cancelled, every Wait call eventually returns nil; a bucket of capacity 0
\* never holds a token, whatever its refill rate.
C10_WaitLiveness ==
    \A p \in Procs :
        (Busy(p) /\ cfg.gcap > 0 /\ cfg.pcap > 0) ~> WaitReturnedNil(p)

\* both Wait calls have returned nil, one of them after a denied poll
C10_Witness ==
    /\ \A p \in Procs : WaitReturnedNil(p)
    /\ \E p \in Procs : denied[p]
    /\ cfg.gcap > 0 /\ cfg.pcap > 0

\* -------------------------------------------- claims, batch orchestration

Returned == mainpc = "returned"

\* the one-to-one maps from the positions of the results to those of the input
Perms(n) == {f \in [1..n -> 1..n] : \A i, j \in 1..n : i # j => f[i] # f[j]}

\* C11, as stated: the response has total = N, succeeded + failed = N and N
\* results, and the domains of the results are pairwise distinct
C11_AsStated ==
    Returned =>
        /\ response.Summary.Total = Len(domains)
        /\ response.Summary.Succeeded + response.Summary.Failed = Len(domains)
        /\ Len(response.Results) = Len(domains)
        /\ \A j, k \in 1..Len(response.Results) :
               j # k => response.Results[j].Domain # response.Results[k].Domain

\* C11, batch completeness: the response has total = N, succeeded + failed = N
\* and exactly N results, one for each position of the input list and carrying
\* the domain at that position (so the domains of the results are distinct when
\* those of the input are); for the empty list the summary is {0,0,0}, the
\* lists are empty and no pipeline was invoked
C11_BatchCompleteness ==
    Returned =>
        /\ response.Summary.Total = Len(domains)
        /\ response.Summary.Succeeded + response.Summary.Failed = Len(domains)
        /\ Len(response.Results) = Len(domains)
        /\ \E f \in Perms(Len(domains)) :
               \A k \in 1..Len(domains) : response.Results[k].Domain = domains[f[k]]
        /\ Len(domains) = 0 =>
               /\ response.Summary = NoSummary
               /\ response.Results = << >>
               /\ response.Advertisers = << >>
               /\ aggpc = "off"
               /\ stages = << >>

\* a batch naming the same domain twice has returned, one of its results
\* having overtaken the other
C11_Witness ==
    /\ Returned
    /\ Len(domains) = 2
    /\ domains[1] = domains[2]
    /\ Len(response.Results) = 2
    /\ response.Results[1].task = 2

\* the tasks whose AnalyzeDomain returned an analysis, and those it failed
SucceededTasks == {i \in Tasks : wres[i].via \in {"cache", "fresh"}}
FailedTasks == {i \in Tasks : wres[i].via = "failed"}

\* the result of task i in the response
ResultOf(i) ==
    CHOOSE r \in {response.Results[k] : k \in 1..Len(response.Results)} : r.task = i

\* C12, failure containment: AnalyzeDomains returns no error; every task's
\* pipeline was invoked, whatever became of the others; a failed task shows only
\* as a success=false result with an error message and in the failed count, and
\* every task that succeeded has a success=true result and is counted
C12_FailureContainment ==
    Returned =>
        /\ IsNone(response.err)
        /\ \A i \in Tasks :
               /\ "CacheLookup" \in stages[i]
               /\ i \in SucceededTasks \cup FailedTasks
               /\ \E k \in 1..Len(response.Results) : response.Results[k].task = i
               /\ ResultOf(i).Success = (i \in SucceededTasks)
               /\ (ResultOf(i).Error # << >>) = (i \in FailedTasks)
        /\ response.Summary.Succeeded = Cardinality(SucceededTasks)
        /\ response.Summary.Failed = Cardinality(FailedTasks)

\* a batch has returned in which the first result is a failure and the
\* second a success
C12_Witness ==
    /\ Returned
    /\ Len(response.Results) = 2
    /\ ~response.Results[1].Success
    /\ response.Results[2].Success
    /\ response.Summary = [Total |-> 2, Succeeded |-> 1, Failed |-> 1]

\* the tasks between `sem <- struct{}{}` and the deferred `<-sem`
InPipeline == {i \in Tasks : wpc[i] \in {"lookup", "fetch", "publish", "release"}}

\* C13, concurrency bound: with maxConcurrent >= 1, at most maxConcurrent
\* tasks are between the acquisition of a slot and its release
C13_ConcurrencyBound ==
    maxConcurrent >= 1 => Cardinality(InPipeline) <= maxConcurrent

\* with maxConcurrent = 1 and two domains, one task is inside AnalyzeDomain
\* and the other is waiting for the slot
C13_Witness ==
    /\ maxConcurrent = 1
    /\ Len(domains) = 2
    /\ wpc[1] = "acquire"
    /\ wpc[2] \in {"lookup", "fetch"}
    /\ sem = 1

\* the count a list of AdvertiserInfo gives to advertiser a (0 when absent)
RECURSIVE CountIn(_, _)
CountIn(advertisers, a) ==
    IF advertisers = << >> THEN 0
    ELSE (IF advertisers[1].Domain = a THEN advertisers[1].Count ELSE 0)
         + CountIn(Tail(advertisers), a)

\* the sum of a's counts over the succeeded results of a list of results
RECURSIVE SumOverSucceeded(_, _)
SumOverSucceeded(rs, a) ==
    IF rs = << >> THEN 0
    ELSE (IF rs[1].Success THEN CountIn(rs[1].Advertisers, a) ELSE 0)
         + SumOverSucceeded(Tail(rs), a)

\* the advertiser domains named by a list of AdvertiserInfo
NamesIn(advertisers) == {advertisers[k].Domain : k \in 1..Len(advertisers)}

\* the advertiser domains named anywhere in the response
ResponseNames ==
    NamesIn(response.Advertisers) \cup
    UNION {NamesIn(response.Results[k].Advertisers) : k \in 1..Len(response.Results)}

\* C14, aggregate table: in the response the count of every advertiser is the
\* sum of its counts over the succeeded results, and an advertiser is in the
\* aggregate list iff a succeeded result names it; a failed result adds nothing
C14_AggregateTable ==
    Returned =>
        \A a \in ResponseNames :
            /\ a \in NamesIn(response.Advertisers) <=>
                   \E k \in 1..Len(response.Results) :
                       /\ response.Results[k].Success
                       /\ a \in NamesIn(response.Results[k].Advertisers)
            /\ \A k \in 1..Len(response.Advertisers) :
                   response.Advertisers[k].Domain = a =>
                       response.Advertisers[k].Count =
                           SumOverSucceeded(response.Results, a)

\* two domains with different ads.txt files succeeded, and the advertiser
\* they share has the sum of its two counts
C14_Witness ==
    /\ Returned
    /\ response.Summary.Succeeded = 2
    /\ response.Results[1].Advertisers # response.Results[2].Advertisers
    /\ AdvA \in NamesIn(response.Results[1].Advertisers)
    /\ AdvA \in NamesIn(response.Results[2].Advertisers)
    /\ \E k \in 1..Len(response.Advertisers) :
           response.Advertisers[k] = [Domain |-> AdvA, Count |-> 2]

\* the sum of the TotalAdvertisers fields of the succeeded results of a list
RECURSIVE SumTotals(_)
SumTotals(rs) ==
    IF rs = << >> THEN 0
    ELSE (IF rs[1].Success THEN rs[1].TotalAdvertisers ELSE 0) + SumTotals(Tail(rs))

\* C15, aggregate total: the TotalAdvertisers of the response is the sum of
\* the TotalAdvertisers of its succeeded results, fresh or cached
C15_AggregateTotal ==
    Returned => response.TotalAdvertisers = SumTotals(response.Results)

\* a cache hit and a fresh analysis both succeeded: 3 + 2 advertiser entries
C15_Witness ==
    /\ Returned
    /\ Len(response.Results) = 2
    /\ response.Results[1].Success /\ response.Results[1].Cached
    /\ response.Results[2].Success /\ ~response.Results[2].Cached
    /\ response.Results[1].TotalAdvertisers = 3
    /\ response.Results[2].TotalAdvertisers = 2
    /\ response.TotalAdvertisers = 5

\* consecutive entries go down in count or, at equal counts, up in domain
Ordered(advertisers) ==
    \A k \in 1..(Len(advertisers) - 1) :
        \/ advertisers[k].Count > advertisers[k + 1].Count
        \/ /\ advertisers[k].Count = advertisers[k + 1].Count
           /\ LexLess(advertisers[k].Domain, advertisers[k + 1].Domain)

NoDuplicate(advertisers) ==
    \A j, k \in 1..Len(advertisers) :
        j # k => advertisers[j].Domain # advertisers[k].Domain

\* C16, ordering: the advertiser list of the response, and the list of every
\* analysis buildAnalysis built, is in order of count descending, then domain
\* ascending, and names no advertiser twice
C16_AdvertiserOrder ==
    /\ Returned =>
           /\ Ordered(response.Advertisers)
           /\ NoDuplicate(response.Advertisers)
    /\ \A i \in Tasks :
           wres[i].via \in {"fresh", "cache"} =>
               /\ Ordered(wres[i].analysis.Advertisers)
               /\ NoDuplicate(wres[i].analysis.Advertisers)

\* the aggregate list has two advertisers tied at 2, in domain order, before
\* one at 1; the per-domain list of one result has a tie between "a" and "ab"
C16_Witness ==
    /\ Returned
    /\ response.Advertisers = <<[Domain |-> AdvA, Count |-> 2],
                                [Domain |-> AdvB, Count |-> 2],
                                [Domain |-> AdvAB, Count |-> 1]>>
    /\ \E i \in Tasks :
           /\ wres[i].via = "fresh"
           /\ wres[i].analysis.Advertisers = <<[Domain |-> AdvA, Count |-> 1],
                                               [Domain |-> AdvAB, Count |-> 1]>>

\* the advertiser table of a list of results, folded in the order of the list
RECURSIVE FoldResults(_, _)
FoldResults(m, rs) ==
    IF rs = << >> THEN m
    ELSE FoldResults(IF rs[1].Success THEN FoldAdvertisers(m, rs[1].Advertisers) ELSE m,
                     Tail(rs))

\* what the pipelines returned, as results in the order of the input list
OutcomesInInputOrder == [i \in Tasks |-> DomainResult(i)]

\* the table of the outcomes, laid out in one fixed order of its keys
OutcomeTableOrder ==
    CHOOSE order \in RangeOrders(FoldResults(EmptyCounts, OutcomesInInputOrder)) : TRUE

\* C17, order independence: the summary, the aggregate advertiser list with
\* its order, and the aggregate total of the response are determined by the
\* input list and by what each domain's pipeline returned; the order in which
\* the workers ran and finished, and the order in which the table is walked,
\* do not show in them
C17_OrderIndependence ==
    (Returned /\ Len(domains) > 0) =>
        /\ response.Summary = [Total |-> Len(domains),
                               Succeeded |-> Cardinality(SucceededTasks),
                               Failed |-> Cardinality(FailedTasks)]
        /\ response.Advertisers = SortSlice(OutcomeTableOrder)
        /\ response.TotalAdvertisers = SumCounts(OutcomeTableOrder)

\* the second domain of the input finished first; both domains succeeded with
\* different advertiser lists and two advertisers tie in the aggregate
C17_Witness ==
    /\ Returned
    /\ Len(domains) = 2
    /\ domains[1] # domains[2]
    /\ response.Results[1].task = 2
    /\ response.Results[1].Success /\ response.Results[2].Success
    /\ Len(response.Advertisers) = 3
    /\ response.Advertisers[1].Count = response.Advertisers[2].Count

\* C18, termination: a call with a non-empty list and maxConcurrent >= 1, whose
\* AnalyzeDomain invocations all return, returns its response
C18_Termination ==
    (mainpc = "start" /\ Len(domains) >= 1 /\ maxConcurrent >= 1) ~> Returned

\* a batch longer than maxConcurrent has returned with all its results
C18_Witness ==
    /\ Returned
    /\ Len(domains) > maxConcurrent
    /\ maxConcurrent >= 1
    /\ Len(response.Results) = Len(domains)
    /\ sem = 0 /\ wg = 0 /\ chanClosed /\ resultsChan = << >>

\* the tasks whose pipeline failed on the done context
CancelledTasks == {i \in FailedTasks : wres[i].err.Err = "context"}

\* what a call whose ctx was cancelled has returned: no error, N results, every
\* task's pipeline invoked (those that took their slot after the cancellation
\* included), and every task that failed on the cancellation as a failed result
CancelledCallResponse ==
    (Returned /\ bctxDone) =>
        /\ IsNone(response.err)
        /\ Len(response.Results) = Len(domains)
        /\ \A i \in Tasks :
               /\ "CacheLookup" \in stages[i]
               /\ \E k \in 1..Len(response.Results) : response.Results[k].task = i
        /\ \A i \in CancelledTasks :
               /\ ~ResultOf(i).Success
               /\ ResultOf(i).Error = ErrorString(wres[i].err)
        /\ response.Summary.Failed = Cardinality(FailedTasks)

\* C19, cancellation: a call whose ctx is cancelled while it runs still returns
\* (maxConcurrent >= 1), without error and with N results; a task that was
\* waiting for a slot still invokes the pipeline, with the cancelled context;
\* a pipeline that fails on the cancellation is an ordinary failed result
C19_Cancellation ==
    /\ [] CancelledCallResponse
    /\ (bctxDone /\ maxConcurrent >= 1) ~> Returned

\* the call returned after a cancellation that found the second task waiting
\* for the slot: the first task succeeded, the second ran its pipeline with the
\* cancelled context, failed on it, and is in the response as a failure
C19_Witness ==
    /\ Returned
    /\ bctxDone
    /\ Len(domains) = 2
    /\ ~lateInvoke[1] /\ 1 \in SucceededTasks
    /\ lateInvoke[2] /\ 2 \in CancelledTasks
    /\ "Fetch" \in stages[2]
    /\ response.Summary = [Total |-> 2, Succeeded |-> 1, Failed |-> 1]

\* a step of task i out of the cache lookup that found the analysis
HitStep(i) == wpc[i] = "lookup" /\ wres'[i].via = "cache"

\* C20, cache hit: a lookup that succeeds ends the call at once, returning the
\* cached analysis with Cached = true and no error (an entry of the memory
\* cache is always found); neither Fetch, Parse, Count nor CacheStore ran
\* for that call, then or later
C20_CacheHit ==
    /\ [][\A i \in Tasks :
             /\ HitStep(i) =>
                    /\ ~IsNone(dcache[domains[i]])
                    /\ wres'[i].analysis =
                           [dcache[domains[i]].analysis EXCEPT !.Cached = TRUE]
                    /\ IsNone(wres'[i].err)
                    /\ wpc'[i] = "publish"
                    /\ stages'[i] = {"CacheLookup"}
             /\ (wpc[i] = "lookup" /\ wpc'[i] # "lookup"
                 /\ env.backend = "memory" /\ ~IsNone(dcache[domains[i]])) => HitStep(i)]_vars
    /\ [] \A i \in Tasks :
             wres[i].via = "cache" =>
                 /\ stages[i] = {"CacheLookup"}
                 /\ wres[i].analysis.Cached

\* a call found a stale analysis of its domain in the cache and has published
\* it: the result is cached and carries the stored list, not the site's
C20_Witness ==
    \E i \in Tasks :
        /\ wres[i].via = "cache"
        /\ wpc[i] = "finished"
        /\ stages[i] = {"CacheLookup"}
        /\ env.world[domains[i]].isCached
        /\ wres[i].analysis.Advertisers = SortSlice(CHOOSE order \in
               RangeOrders(CountAdvertisers(env.world[domains[i]].cachedFrom)) : TRUE)
        /\ \E k \in 1..Len(results) : results[k].task = i /\ results[k].Cached

\* -------------------------------------------- claims, pipeline and results

\* a step of task i out of AnalyzeDomain after a cache miss
MissStep(i) == wpc[i] = "fetch" /\ wpc'[i] # "fetch"

\* C21, failure transitions: after a miss, a failing Fetch or a failing Parse
\* ends the call with a nil analysis and a DomainError that carries the
\* requested domain and wraps the cause; after a Fetch failure Parse is not
\* called, and after either failure nothing is counted or stored in the cache
C21_FailureTransitions ==
    [][\A i \in Tasks :
          MissStep(i) =>
              LET w == env.world[domains[i]]
                  r == wres'[i]
              IN /\ (~w.fetchOk \/ ~w.parseOk) => r.via = "failed"
                 /\ r.via = "failed" =>
                        /\ IsNone(r.analysis)
                        /\ r.err.Domain = domains[i]
                        /\ r.err.Err \in {"fetch", "parse", "context"}
                        /\ stages'[i] \cap {"Count", "CacheStore"} = {}
                        /\ dcache' = dcache
                        /\ r.err.Err \in {"fetch", "context"} =>
                               /\ r.err.Message = "failed to fetch ads.txt"
                               /\ "Parse" \notin stages'[i]
                        /\ r.err.Err = "parse" =>
                               /\ r.err.Message = "failed to parse ads.txt"
                               /\ "Parse" \in stages'[i]]_vars

\* a call missed the cache, fetched, failed to parse and has returned its
\* DomainError; the cache has no entry for the domain
C21_Witness ==
    \E i \in Tasks :
        /\ wpc[i] = "publish"
        /\ wres[i].via = "failed"
        /\ wres[i].err = NewDomainError(domains[i], "failed to parse ads.txt", "parse")
        /\ stages[i] = {"CacheLookup", "Fetch", "Parse"}
        /\ IsNone(dcache[domains[i]])

\* the result task i has published, once it has
Published(i) == wpc[i] \in {"release", "finished"}

PublishedResult(i) ==
    CHOOSE r \in {resultsChan[k] : k \in 1..Len(resultsChan)} \cup
                 {results[k] : k \in 1..Len(results)} : r.task = i

\* C22, best-effort caching: a call that fetched and parsed and whose Set
\* failed returns the analysis it built, with Cached = false and a nil error;
\* its result is a success, and the cache is as it was
C22_BestEffortCaching ==
    ~env.setOk =>
        /\ dcache = CacheBefore(env.world)
        /\ \A i \in Tasks :
               "CacheStore" \in stages[i] =>
                   /\ wres[i].via = "fresh"
                   /\ IsNone(wres[i].err)
                   /\ wres[i].analysis \in
                          buildAnalysis(domains[i], env.world[domains[i]].entries)
                   /\ ~wres[i].analysis.Cached
                   /\ Published(i) =>
                          /\ PublishedResult(i).Success
                          /\ ~PublishedResult(i).Cached
                          /\ PublishedResult(i).Error = << >>

\* with a cache whose Set fails, a domain listed twice was analysed afresh
\* twice, and both results are successes that are not cached
C22_Witness ==
    /\ ~env.setOk
    /\ Len(domains) = 2
    /\ domains[1] = domains[2]
    /\ \A i \in Tasks :
           /\ stages[i] = {"CacheLookup", "Fetch", "Parse", "Count", "CacheStore"}
           /\ Published(i)
           /\ PublishedResult(i).Success
           /\ ~PublishedResult(i).Cached

\* C23, result well-formedness: in the response, a result with success=false
\* has an error message, cached=false, totalAdvertisers=0 and no advertisers;
\* a result with success=true has no error message, and is cached exactly
\* when its pipeline was served from the cache
C23_WellFormed ==
    Returned =>
        \A k \in 1..Len(response.Results) :
            LET r == response.Results[k]
            IN IF r.Success
               THEN /\ r.Error = << >>
                    /\ r.Cached = (wres[r.task].via = "cache")
               ELSE /\ r.Error # << >>
                    /\ ~r.Cached
                    /\ r.TotalAdvertisers = 0
                    /\ r.Advertisers = << >>

\* -------------------------------------------------- claims, middleware

\* C24, admission before work: a request in the middleware has had Allow
\* called for it exactly once before anything downstream; until Allow has
\* returned nothing is written and next is not called; if Allow returned
\* false the response is 429 and next is not called for the request; if it
\* returned true next is called exactly once
C24_AdmissionBeforeWork ==
    \A p \in Procs :
        /\ burst.issued[p] =
               mw[p].requests -
               (IF mw[p].stage = "received" /\ pc[p] = "idle" THEN 1 ELSE 0)
        /\ mw[p].stage = "received" => mw[p].nextCalls = 0 /\ mw[p].status = 0
        /\ mw[p].stage = "responded" =>
               \/ mw[p].status = 429 /\ mw[p].nextCalls = 0
               \/ mw[p].status = 200 /\ mw[p].nextCalls = 1
        /\ (mw[p].stage = "responded" /\ pc[p] = "done") =>
               /\ ret[p] = "false" => mw[p].status = 429 /\ mw[p].nextCalls = 0
               /\ ret[p] = "true" => mw[p].nextCalls = 1
               /\ ret[p] \in {"true", "false"}

\* two requests of one client: the one was handed on to the next handler, the
\* other was denied and answered 429 without the next handler being called
C24_Witness ==
    /\ mw["p1"].stage = "responded" /\ pc["p1"] = "done" /\ ret["p1"] = "true"
    /\ mw["p1"].nextCalls = 1
    /\ mw["p2"].stage = "responded" /\ pc["p2"] = "done" /\ ret["p2"] = "false"
    /\ mw["p2"].status = 429 /\ mw["p2"].nextCalls = 0
    /\ mw["p1"].ip = mw["p2"].ip

\* the positions of the input list that name domain d
Occurrences(d) == {i \in Tasks : domains[i] = d}

\* C25, duplicates: a domain that occurs k times in the input has its pipeline
\* invoked k times and k results in the response (the result domains are the
\* input domains, as multisets); each occurrence is counted in the summary and
\* folded separately into the aggregate table
C25_Duplicates ==
    Returned =>
        /\ \A d \in Domains :
               /\ Cardinality({k \in 1..Len(response.Results) :
                                   response.Results[k].Domain = d})
                      = Cardinality(Occurrences(d))
               /\ \A i \in Occurrences(d) : "CacheLookup" \in stages[i]
               /\ {response.Results[k].task : k \in 1..Len(response.Results)}
                      \cap Occurrences(d) = Occurrences(d)
        /\ response.Summary.Succeeded = Cardinality(SucceededTasks)
        /\ response.Summary.Failed = Cardinality(FailedTasks)
        /\ \A k \in 1..Len(response.Advertisers) :
               response.Advertisers[k].Count =
                   SumOverSucceeded(OutcomesInInputOrder,
                                    response.Advertisers[k].Domain)
        /\ NamesIn(response.Advertisers) =
               UNION {NamesIn(DomainResult(i).Advertisers) : i \in SucceededTasks}

\* a domain listed twice succeeded twice: two results for it, and twice its
\* counts in the aggregate list
C25_Witness ==
    /\ Returned
    /\ Len(domains) = 2
    /\ domains[1] = domains[2]
    /\ response.Summary.Succeeded = 2
    /\ response.Results[1].Domain = response.Results[2].Domain
    /\ response.Advertisers = <<[Domain |-> AdvB, Count |-> 4],
                                [Domain |-> AdvA, Count |-> 2]>>

\* -------------------------------------------------- claims, TokenBucket

\* an Allow call on the stand-alone bucket that returns false
TbDenied ==
    /\ Len(tbLog'.calls) = Len(tbLog.calls) + 1
    /\ ~tbLog'.calls[Len(tbLog'.calls)].ok

\* C26, no side effects on denial: an Allow call that returns false leaves the
\* bucket's tokens and its lastRefill (here: the time elapsed since it) as
\* they were, for every capacity and refill rate, 0 included
C26_NoEffectOnDenial ==
    [][TbDenied => (tb'.tokens = tb.tokens /\ tb'.elapsed = tb.elapsed)]_vars

\* the step is an Allow call on the stand-alone bucket
TbCalled == Len(tbLog'.calls) = Len(tbLog.calls) + 1

\* the refill of an Allow step, read off the bucket before and after the call:
\* the tokens after the refill are those left plus the one the call took
RefillStep ==
    LET k == (tb.elapsed * tb.refillRate) \div TicksPerSec
        took == IF tbLog'.calls[Len(tbLog'.calls)].ok THEN 1 ELSE 0
    IN IF k > 0
       THEN /\ tb'.tokens + took = Min(tb.capacity, tb.tokens + k)
            /\ tb'.elapsed = 0
       ELSE /\ tb'.tokens + took = tb.tokens
            /\ tb'.elapsed = tb.elapsed

\* the Allow calls made at the present instant
TbNow == {i \in 1..Len(tbLog.calls) : tbLog.calls[i].at = tbLog.since}

\* the last Allow call made before the present instant, 0 if there is none
TbLast == Len(tbLog.calls) - Cardinality(TbNow)

\* the bucket was empty after its last call before now and is polled now
TbPolled ==
    /\ tbLog.since < TbHorizon
    /\ TbNow # {}
    /\ TbLast >= 1
    /\ tbLog.calls[TbLast].left = 0

\* the time of the call that emptied the bucket: its last admitted call
TbEmptiedAt ==
    LET adm == {i \in 1..TbLast : tbLog.calls[i].ok}
    IN IF adm = {} THEN 0
       ELSE tbLog.calls[CHOOSE i \in adm : \A j \in adm : j <= i].at

\* the polls of the present instant admit n calls: never more than n, and n
\* once one of them is denied
TbAdmitsExactly(n) ==
    LET admitted == Cardinality({i \in TbNow : tbLog.calls[i].ok})
    IN /\ admitted <= n
       /\ (\E i \in TbNow : ~tbLog.calls[i].ok) => admitted = n

\* C27, as stated: every Allow refills as described, and an emptied bucket
\* polled e seconds after it was emptied admits exactly
\* min(capacity, floor(e x refillRate)) immediate calls
C27_AsStated ==
    /\ [][TbCalled => RefillStep]_vars
    /\ [](TbPolled =>
            TbAdmitsExactly(Min(tb.capacity,
               ((tbLog.since - TbEmptiedAt) * tb.refillRate) \div TicksPerSec)))

\* C27, refill step: on each Allow, tokensToAdd = floor(elapsed since
\* lastRefill x refillRate); if it is positive, tokens becomes
\* min(capacity, tokens + tokensToAdd) and lastRefill becomes now, otherwise
\* both are as they were; and an empty bucket polled e seconds after its
\* lastRefill admits exactly min(capacity, floor(e x refillRate)) immediate calls
C27_RefillStep ==
    /\ [][TbCalled => RefillStep]_vars
    /\ [](TbPolled =>
            TbAdmitsExactly(Min(tb.capacity,
               ((tbLog.since - tbLog.calls[TbLast].at + tbLog.calls[TbLast].age)
                   * tb.refillRate) \div TicksPerSec)))

\* a bucket emptied by a call made some time after its lastRefill, a time that
\* added no token, was polled later: it admitted a call and denied the next
C27_Witness ==
    /\ TbPolled
    /\ tbLog.calls[TbLast].ok /\ tbLog.calls[TbLast].age > 0
    /\ \E i, j \in TbNow : tbLog.calls[i].ok /\ ~tbLog.calls[j].ok

\* ------------------------------------------- claims, queue and aggregator

\* the step closes the result queue
ClosesQueue == closerpc # "closed" /\ closerpc' = "closed"

\* the step is task i's send on the result queue
Sends(i) == wpc[i] = "publish" /\ wpc'[i] = "release"

\* C28, close after all publishes: the result queue is closed once, and only
\* after every task has published its result; no task sends on the closed
\* queue; and the aggregator emits its response only after it has received
\* all N results and seen the queue closed
C28_CloseAfterPublish ==
    /\ [][/\ ClosesQueue => (~chanClosed /\ chanClosed' /\ \A i \in Tasks : Published(i))
          /\ chanClosed => (chanClosed' /\ ~ClosesQueue)
          /\ \A i \in Tasks : Sends(i) => ~chanClosed]_vars
    /\ [](chanClosed => \A i \in Tasks : Published(i))
    /\ [](aggpc = "sent" => (Len(results) = Len(domains) /\ chanClosed))

\* the aggregator has emitted the response of a call with two tasks, whose
\* queue was closed after both had sent
C28_Witness ==
    /\ Len(domains) >= 2
    /\ aggpc = "sent"
    /\ chanClosed
    /\ \A i \in Tasks : wpc[i] = "finished"

\* the tasks that have not sent their result yet
Unpublished == {i \in Tasks : ~Published(i)}

\* C29, no worker blocks when publishing: the results in the queue and the
\* tasks that have not published yet are together at most len(domains), the
\* queue's capacity, so the send of a task that has its result is enabled
\* whatever the aggregator has done
C29_PublishNeverBlocks ==
    /\ Len(resultsChan) + Cardinality(Unpublished) <= Len(domains)
    /\ \A i \in Tasks : wpc[i] = "publish" => ENABLED Publish(i)

\* in a call with two tasks a task is about to send while another's result
\* waits in the queue and the aggregator has received nothing: the queue and
\* the tasks still to send fill the capacity
C29_Witness ==
    /\ Len(domains) >= 2
    /\ results = << >>
    /\ resultsChan # << >>
    /\ \E i \in Tasks : wpc[i] = "publish"
    /\ Len(resultsChan) + Cardinality(Unpublished) = Len(domains)

\* what the aggregator keeps: the counters, the collected results, the table
aggregatorState == <<summary, results, advertiserCounts>>

\* what the workers keep and share among themselves
workerState == <<wpc, wres, stages, lateInvoke, sem, wg, dcache>>

\* C30, single-writer ownership: the summary counters, the collected results
\* and the advertiser table are written by the aggregator alone, at its start
\* and on each result it receives; every step of a worker leaves them and the
\* aggregator's position and response unchanged, and the aggregator leaves the
\* workers' state unchanged: the two meet only in the result queue
C30_SingleWriter ==
    [][/\ (aggregatorState' # aggregatorState) => (Begin \/ AggReceive)
       /\ (<<aggregatorState, aggpc, responseChan>>' #
              <<aggregatorState, aggpc, responseChan>>) =>
              ~ \E i \in Tasks : WorkerStep(i)
       /\ (workerState' # workerState) => ~ (AggReceive \/ AggFinish)]_vars

\* the aggregator has counted one result, a failure, while another worker is
\* still in its pipeline
C30_Witness ==
    /\ Len(results) = 1
    /\ summary.Failed = 1
    /\ \E i \in Tasks : wpc[i] \notin {"acquire", "publish", "release", "finished"}

\* ------------------------------------------------- claims, gate and order

\* C31, as stated: a task's slot is already free at the moment its result is
\* placed on the result queue, so the slots held at a send are fewer than the
\* tasks that have acquired one and not finished
C31_AsStated ==
    [][\A i \in Tasks : Sends(i) => sem < Cardinality(InPipeline)]_vars

\* C31, step order: a task acquires a slot, runs the pipeline, publishes its
\* result and then releases the slot; every task from its acquisition until its
\* release, its send included, holds a slot of the gate
C31_StepOrder ==
    /\ sem = Cardinality(InPipeline)
    /\ \A i \in Tasks : wpc[i] \in {"lookup", "fetch", "publish"} => ~Published(i)
    /\ \A i \in Tasks : wpc[i] = "release" =>
           /\ sem >= 1
           /\ \E r \in {resultsChan[k] : k \in 1..Len(resultsChan)} \cup
                       {results[k] : k \in 1..Len(results)} : r.task = i

\* the only task of a call has placed its result on the queue and still holds
\* the one slot in use
C31_Witness ==
    /\ Len(domains) = 1
    /\ wpc[1] = "release"
    /\ sem = 1
    /\ Len(resultsChan) = 1

\* ------------------------------------------------ claims, rate and tiers

\* the Allow calls i..j of the stand-alone bucket that returned true
TbAdmittedIn(i, j) == Cardinality({k \in i..j : tbLog.calls[k].ok})

\* C34, rate bound over any window: the Allow calls that return true within a
\* window of length T, wherever it starts, are at most C + floor(T x r); the
\* windows are those from one recorded call to a later one
C34_RateBound ==
    \A i, j \in 1..Len(tbLog.calls) :
        (i <= j /\ tbLog.calls[j].at < TbHorizon) =>
            TbAdmittedIn(i, j) <=
                tb.capacity +
                ((tbLog.calls[j].at - tbLog.calls[i].at) * tb.refillRate) \div TicksPerSec

\* the calls in progress that hold a global token and have not been denied by
\* their identifier's bucket
HoldersInProgress == {p \in Procs : Busy(p) /\ gHeld[p] > 0 /\ pc[p] # "return"}

\* C35, no spurious global denial: with no time elapsing, a request from an
\* identifier that has a token left is denied by the global bucket only if G
\* requests have been admitted, the calls in progress that may yet be admitted
\* counted in; a token held by a request that its identifier's bucket has
\* denied and that is about to return it never causes such a denial
C35_NoSpuriousDenial ==
    [][\A q \in Procs :
          (Counting /\ GlobalDenialStep(q) /\ IdTokens(clientIP[q]) > 0) =>
              TotalAdmitted + Cardinality(HoldersInProgress) >= cfg.gcap]_vars

\* the step is goroutine p's Wait taking a tick in its select and polling Allow
WaitPolls(p) ==
    /\ op[p] = "Wait"
    /\ pc[p] = "select"
    /\ tickPending[p]
    /\ ~tickPending'[p]

\* C38, Wait never admits after cancellation: once its context is done, a Wait
\* call makes no further poll of Allow, so it takes no token and does not
\* return nil from a select at which the context was already done
C38_NoPollAfterCancel ==
    [][\A p \in Procs : ctxDone[p] => ~WaitPolls(p)]_vars

\* C39, unvalidated concurrency bound: with maxConcurrent = 0, which NewService
\* accepts, and a non-empty domain list, no task ever acquires a slot, no
\* pipeline is invoked, the result queue is never closed and AnalyzeDomains
\* never returns
C39_ZeroConcurrency ==
    (maxConcurrent = 0 /\ Len(domains) >= 1) =>
        /\ mainpc \in {"start", "recv"}
        /\ sem = 0
        /\ ~chanClosed
        /\ resultsChan = << >>
        /\ IsNone(responseChan)
        /\ mainpc = "recv" =>
               \A i \in Tasks : wpc[i] = "acquire" /\ stages[i] = {}

\* a call with maxConcurrent = 0 and two domains has started its workers, all
\* of them wait for a slot, and the caller's ctx has been cancelled since
C39_Witness ==
    /\ maxConcurrent = 0
    /\ Len(domains) = 2
    /\ mainpc = "recv"
    /\ bctxDone
    /\ \A i \in Tasks : wpc[i] = "acquire"

\* ------------------------------------- concurrent calls on one Service

\* the pipelines all running calls have between them taken slots for
GateTotal(g) ==
    LET RECURSIVE Sum(_)
        Sum(S) == IF S = {} THEN 0
                  ELSE LET c == CHOOSE x \in S : TRUE
                       IN g.calls[c].sem + Sum(S \ {c})
    IN Sum(Procs)

GateFrame == UNCHANGED <<limVars, procVars, callVars, burst, tbVars, batchVars, httpVars,
                         sweepVars>>

\* AnalyzeDomains(ctx, domains) with n = len(domains) > 0 is called on goroutine
\* c: sem := make(chan struct{}, s.maxConcurrent), and one worker per domain
GateBegin(c, n) ==
    /\ ~gate.calls[c].on
    /\ gate' = [gate EXCEPT !.calls[c] = [on |-> TRUE, sem |-> 0, waiting |-> n,
                                          running |-> 0]]
    /\ GateFrame

\* a variant with one gate for the Service, shared by its calls
GateAcquireShared(c) ==
    /\ gate.calls[c].on
    /\ gate.calls[c].waiting > 0
    /\ GateTotal(gate) < gate.max
    /\ gate' = [gate EXCEPT !.calls[c].sem = @ + 1,
                            !.calls[c].waiting = @ - 1,
                            !.calls[c].running = @ + 1]
    /\ GateFrame

\* a worker of call c: sem <- struct{}{}, then it is inside AnalyzeDomain
GateAcquire(c) ==
    /\ gate.calls[c].on
    /\ gate.calls[c].waiting > 0
    /\ gate.calls[c].sem < gate.max
    /\ gate' = [gate EXCEPT !.calls[c].sem = @ + 1,
                            !.calls[c].waiting = @ - 1,
                            !.calls[c].running = @ + 1]
    /\ GateFrame

\* a worker of call c is through AnalyzeDomain and its send: <-sem
GateRelease(c) ==
    /\ gate.calls[c].running > 0
    /\ gate' = [gate EXCEPT !.calls[c].sem = @ - 1, !.calls[c].running = @ - 1]
    /\ GateFrame

\* call c returns, all its workers being through
GateEnd(c) ==
    /\ gate.calls[c].on
    /\ gate.calls[c].waiting = 0
    /\ gate.calls[c].running = 0
    /\ gate' = [gate EXCEPT !.calls[c].on = FALSE]
    /\ GateFrame

\* a single-domain request: the handler calls AnalyzeDomain itself; at most
\* MaxCalls of them at a time in the model
SingleEnter ==
    /\ gate.single < MaxCalls
    /\ gate' = [gate EXCEPT !.single = @ + 1]
    /\ GateFrame

SingleLeave ==
    /\ gate.single > 0
    /\ gate' = [gate EXCEPT !.single = @ - 1]
    /\ GateFrame

\* SpecCalls: a Service made by NewService(..., M), its batch calls and its
\* single-domain requests
InitCalls ==
    /\ InitLimiter([gcap |-> 0, grate |-> 0, pcap |-> 0, prate |-> 0])
    /\ burst = BurstOff
    /\ InitTb(0, 0)
    /\ InitBatchIdle
    /\ InitHttpIdle
    /\ InitSweepIdle
    /\ \E m \in 0..MaxConcurrent : gate = [NoGate EXCEPT !.max = m]

NextCalls ==
    \/ \E c \in Procs, n \in 1..MaxBatch : GateBegin(c, n)
    \/ \E c \in Procs : GateAcquire(c)
    \/ \E c \in Procs : GateRelease(c)
    \/ \E c \in Procs : GateEnd(c)
    \/ SingleEnter
    \/ SingleLeave

SpecCalls == InitCalls /\ [][NextCalls]_vars

\* the calls that are running
GateCalls == {c \in Procs : gate.calls[c].on}

\* C40, a gate per call: each of k calls running at the same time on one
\* Service with maximum M has at most M pipelines inside, whether it may take
\* a slot depends on its own gate alone, and the k calls have at most k x M
\* pipelines inside between them; single-domain requests take no slot
C40_GatePerCall ==
    /\ \A c \in Procs :
         /\ gate.calls[c].running <= gate.max
         /\ gate.calls[c].running = gate.calls[c].sem
         /\ (gate.calls[c].on /\ gate.calls[c].waiting > 0
                /\ gate.calls[c].sem < gate.max) => ENABLED GateAcquire(c)
    /\ GateTotal(gate) <= Cardinality(GateCalls) * gate.max
    /\ gate.single < MaxCalls => ENABLED SingleEnter

\* two calls on a Service with M >= 1 have M pipelines inside each, 2 x M > M
\* in all, and a single-domain request runs beside them
C40_Witness ==
    /\ gate.max >= 1
    /\ Cardinality(GateCalls) = 2
    /\ \A c \in Procs : gate.calls[c].running = gate.max
    /\ GateTotal(gate) = 2 * gate.max
    /\ gate.single >= 1

\* ------------------------------------------------------ cleanupIPBuckets

CleanupEveryMin == 10     \* time.NewTicker(10 * time.Minute)
CutoffMin == 30           \* time.Now().Add(-30 * time.Minute)

\* the two in ticks of the clock
PeriodTicks == CleanupEveryMin * 60 * TicksPerSec
CutoffTicks == CutoffMin * 60 * TicksPerSec

\* beyond this age a bucket is older than the cutoff and a refill fills it;
\* its elapsed is kept there
IdleCap == CutoffTicks + PeriodTicks

\* d ticks pass for a bucket
AgedBy(b, d) == [b EXCEPT !.elapsed = Min(@ + d, IdleCap)]

SweepFrame ==
    UNCHANGED <<cfg, procVars, callVars, burst, tbVars, batchVars, httpVars, gateVars>>

\* the bucket is an entry of the map or a caller holds it
Referenced(i) ==
    \/ \E id \in Idents : ipBuckets[id] = i
    \/ \E p \in Procs : ipBucket[p] = i

\* ten minutes pass between two sweeps and the sweep's ticker delivers a tick;
\* a sweep in progress ends before time moves on.  The global bucket, which is
\* not swept, saturates as under Tick; a bucket nothing refers to any more is
\* garbage and is forgotten
SweepTick ==
    /\ swpc = "idle"
    /\ globalBucket' = [globalBucket EXCEPT
                           !.elapsed = Min(@ + PeriodTicks, Saturation(globalBucket))]
    /\ buckets' = [i \in DOMAIN buckets |->
                     IF Referenced(i) THEN AgedBy(buckets[i], PeriodTicks) ELSE NoBucket]
    /\ kept' = [id \in Idents |->
                  IF kept[id] = Unkept THEN Unkept ELSE AgedBy(kept[id], PeriodTicks)]
    /\ swFire' = TRUE
    /\ newBucket' = [p \in Procs |->
                        IF pc[p] = "store" THEN AgedBy(newBucket[p], PeriodTicks)
                        ELSE newBucket[p]]
    /\ UNCHANGED <<cfg, ipBuckets, pc, op, clientIP, ipBucket, ret, tickPending, ctxDone,
                   callVars, burst, tbVars, batchVars, httpVars, gateVars,
                   swpc, swTodo, swKey, swOld>>

\* lines 432-435: a tick is received, cutoff := now - 30 min, Range begins on
\* the entries there are
SwWake ==
    /\ swpc = "idle"
    /\ swFire
    /\ swFire' = FALSE
    /\ swTodo' = {id \in Idents : ipBuckets[id] # 0}
    /\ swpc' = IF swTodo' = {} THEN "idle" ELSE "range"
    /\ UNCHANGED <<limVars, swKey, swOld, kept>>
    /\ SweepFrame

\* lines 436-439: the callback on entry k reads bucket.lastRefill under the
\* bucket's mutex
SwRead(k) ==
    /\ swpc = "range"
    /\ k \in swTodo
    /\ swTodo' = swTodo \ {k}
    /\ swKey' = k
    /\ swOld' = (buckets[ipBuckets[k]].elapsed > CutoffTicks)
    /\ swpc' = "decide"
    /\ UNCHANGED <<limVars, swFire, kept>>
    /\ SweepFrame

\* a variant that deletes no entry
SwDecideNever ==
    /\ swpc = "decide"
    /\ swpc' = IF swTodo = {} THEN "idle" ELSE "range"
    /\ swKey' = NoIP
    /\ swOld' = FALSE
    /\ UNCHANGED <<limVars, swFire, swTodo, kept>>
    /\ SweepFrame

\* lines 441-444: if lastActivity.Before(cutoff) { trl.ipBuckets.Delete(key) };
\* Range goes on to the next entry or returns
SwDecide ==
    /\ swpc = "decide"
    /\ IF swOld
       THEN /\ ipBuckets' = [ipBuckets EXCEPT ![swKey] = 0]
            /\ kept' = [kept EXCEPT ![swKey] =
                          IF @ = Unkept THEN buckets[ipBuckets[swKey]] ELSE @]
       ELSE UNCHANGED <<ipBuckets, kept>>
    /\ swpc' = IF swTodo = {} THEN "idle" ELSE "range"
    /\ swKey' = NoIP
    /\ swOld' = FALSE
    /\ UNCHANGED <<cfg, globalBucket, buckets, swFire, swTodo>>
    /\ SweepFrame

\* a client calls Allow(id); the model makes no more than MaxCalls + 1 buckets
SwStartAllow(p, id) ==
    /\ Len(buckets) < MaxCalls
    /\ StartAllow(p, id)

\* the identifiers the clients call Allow with: one client keeps to one
\* identifier, the other uses them all
SweepIdents(p) == IF p = "p1" THEN WaitIdents ELSE Idents

SweepConfigs ==
    [gcap : {MaxCap + 1}, grate : {MaxRate}, pcap : 1..MaxCap, prate : 0..MaxRate]

\* SpecSweep: Allow calls, the sweep goroutine, and the clock in steps of ten
\* minutes
InitSweep ==
    /\ \E c \in SweepConfigs : InitLimiter(c)
    /\ burst = BurstOff
    /\ InitTb(0, 0)
    /\ InitBatchIdle
    /\ InitHttpIdle
    /\ InitGateIdle
    /\ InitSweepIdle

SweeperStep ==
    \/ SwWake
    \/ \E k \in Idents : SwRead(k)
    \/ SwDecide

NextSweep ==
    \/ \E p \in Procs : \E id \in SweepIdents(p) : SwStartAllow(p, id)
    \/ \E p \in Procs : GlobalAllow(p)
    \/ \E p \in Procs : Load(p)
    \/ \E p \in Procs : Store(p)
    \/ \E p \in Procs : IPAllow(p)
    \/ \E p \in Procs : ReturnToken(p)
    \/ \E p \in Procs : Return(p)
    \/ SweepTick
    \/ SwWake
    \/ \E k \in Idents : SwRead(k)
    \/ SwDecide

SpecSweep == InitSweep /\ [][NextSweep]_vars

\* -------------------------------------------------- claims, the sweep

\* the step deletes identifier id's entry
Deletes(id) == ipBuckets[id] # 0 /\ ipBuckets'[id] = 0

\* C32, eviction safety: the sweep removes an identifier's bucket only if the
\* bucket's lastRefill is older than the cutoff at the moment the entry is
\* deleted, however the sweep and the Allow calls interleave
C32_EvictionSafety ==
    [][\A id \in Idents :
          Deletes(id) => buckets[ipBuckets[id]].elapsed > CutoffTicks]_vars

\* the calls in progress that have got their identifier's bucket
HoldsBucket(p) == Busy(p) /\ ipBucket[p] # 0

\* C36, one live bucket per identifier: the Allow calls in progress for one
\* identifier all have the same TokenBucket, also while the sweep runs; no
\* caller is left with a removed bucket while another has a fresh one
C36_OneLiveBucket ==
    \A p, q \in Procs :
        (HoldsBucket(p) /\ HoldsBucket(q) /\ clientIP[p] = clientIP[q])
            => ipBucket[p] = ipBucket[q]

\* the step is goroutine p's ipBucket.Allow() returning ok
IPAllowReturns(p, ok) ==
    /\ pc[p] = "ip"
    /\ pc'[p] = IF ok THEN "done" ELSE "return"

\* C37, eviction is unobservable to admission: an Allow for an identifier whose
\* entry the sweep has deleted is admitted by the identifier's bucket only if
\* the bucket the identifier would have had without the deletion, with the
\* same calls made on it, admits it too, for every capacity and refill rate
C37_EvictionUnobservable ==
    [][\A p \in Procs :
          (IPAllowReturns(p, TRUE) /\ kept[clientIP[p]] # Unkept) =>
              TokenBucketAllow(kept[clientIP[p]]).ok]_vars

\* the steps that carry a call of Allow in progress to its end
ClientFinish(p) ==
    \/ GlobalAllow(p)
    \/ Load(p)
    \/ Store(p)
    \/ IPAllow(p)
    \/ ReturnToken(p)
    \/ Return(p)

\* a client calls Allow(id) while the heap holds fewer buckets than there are
\* identifiers: each identifier's bucket can be made, swept and made again
SwLiveStart(p, id) ==
    /\ Len(buckets) < Cardinality(Idents)
    /\ StartAllow(p, id)

\* per-client buckets of one token, refilled or never refilled
SweepLiveConfigs ==
    [gcap : {MaxCap + 1}, grate : {MaxRate}, pcap : {1}, prate : {0, MaxRate}]

InitSweepLive ==
    /\ \E c \in SweepLiveConfigs : InitLimiter(c)
    /\ burst = BurstOff
    /\ InitTb(0, 0)
    /\ InitBatchIdle
    /\ InitHttpIdle
    /\ InitGateIdle
    /\ InitSweepIdle

NextSweepLive ==
    \/ \E p \in Procs : \E id \in SweepIdents(p) : SwLiveStart(p, id)
    \/ \E p \in Procs : ClientFinish(p)
    \/ SweepTick
    \/ SweeperStep

\* SpecSweepLive: Allow calls and the sweep, with time that goes on, a sweep
\* goroutine that is scheduled, and calls that run to their end
SpecSweepLive ==
    /\ InitSweepLive
    /\ [][NextSweepLive]_vars
    /\ WF_vars(SweepTick)
    /\ WF_vars(SweeperStep)
    /\ \A p \in Procs : WF_vars(ClientFinish(p))

\* no call of Allow for identifier id is in progress
Quiet(id) == \A p \in Procs : clientIP[p] # id

\* C33, eviction liveness: the bucket of an identifier that stops issuing
\* requests is eventually removed from the registry and stays so; the sweep
\* that visits an entry whose bucket's lastRefill is older than the cutoff
\* deletes it
C33_EvictionLiveness ==
    /\ \A id \in Idents : (<>[]Quiet(id)) => <>[](ipBuckets[id] = 0)
    /\ [][(/\ swpc = "decide" /\ swpc' # "decide"
            /\ buckets[ipBuckets[swKey]].elapsed > CutoffTicks)
             => ipBuckets'[swKey] = 0]_vars

\* the sweep has just deleted the entry of an identifier that has no call in
\* progress, while the other identifier's entry, just used, stays
C33_Witness ==
    /\ ipBuckets["ipA"] = 0
    /\ kept["ipA"] # Unkept
    /\ Quiet("ipA")
    /\ ipBuckets["ipB"] # 0
    /\ buckets[ipBuckets["ipB"]].elapsed = 0
    /\ swpc = "idle" /\ ~swFire

====
